---- MODULE Spec2Model ----
(***************************************************************************)
(* Library system of Examen01-DW: search strategies (ejercicio01.py), the  *)
(* validator / repository / notifier / service split (ejercicio02.py) and  *)
(* the repository abstraction with its two backends and the injected       *)
(* service (ejercicio03.py).                                               *)
(*                                                                         *)
(* A Python str is a sequence of one-character strings, so that len,       *)
(* strip, lower, "in" and split are computed and not assumed.  A Python    *)
(* object stored in a list is identified by its position in that list:     *)
(* the services store only freshly constructed objects, so an in-place     *)
(* attribute assignment on a looked-up object is an update at its index.   *)
(***************************************************************************)
EXTENDS Integers, Sequences, FiniteSets, TLC

VARIABLES
    variante,           \* which service/repository pair is running
    libros,             \* repositorio.libros
    prestamos,          \* repositorio.prestamos
    contador_libro,     \* repositorio.contador_libro
    contador_prestamo,  \* repositorio.contador_prestamo
    archivo,            \* content of the backing file
    notificaciones,     \* lines the last call printed through the notifier, in order
    ultima,             \* the call made by the last step: [op, args]
    resultado,          \* what that call returned or raised
    asignados_libro,    \* ids handed out by agregar_libro, in call order
    asignados_prestamo, \* ids handed out by agregar_prestamo, in call order
    estrategias,        \* _estrategias_busqueda of the ejercicio01 system
    previo,             \* the books and loans as they were before the last call
    fase,               \* where the run stands: "libre" between two calls of one
                        \* system; otherwise the turn in a run of two systems
    gemelo              \* the second system of a run of two systems, while the
                        \* other one is the running one

vars == <<variante, libros, prestamos, contador_libro, contador_prestamo,
          archivo, notificaciones, ultima, resultado,
          asignados_libro, asignados_prestamo, estrategias, previo, fase, gemelo>>

----------------------------------------------------------------------------
(* Bounds *)

MaxLibros == 2
MaxPrestamos == 2

----------------------------------------------------------------------------
(* Python str operations *)

\* None, as passed for the id of a record that has not been stored yet
None == 0

Espacios == {" ", "\t"}

Mayusculas ==
    [c \in {"A", "B", "C", "E", "F", "G", "I", "J", "L", "M", "O", "P", "R", "S", "T", "U", "Y", "Í"} |->
        CASE c = "A" -> "a" [] c = "B" -> "b" [] c = "C" -> "c"
          [] c = "M" -> "m" [] c = "E" -> "e" [] c = "F" -> "f"
          [] c = "G" -> "g" [] c = "I" -> "i" [] c = "J" -> "j"
          [] c = "L" -> "l" [] c = "O" -> "o" [] c = "P" -> "p"
          [] c = "R" -> "r"
          [] c = "S" -> "s" [] c = "T" -> "t" [] c = "U" -> "u"
          [] c = "Y" -> "y" [] c = "Í" -> "í"]

\* str.lower()
lower(s) ==
    [i \in 1..Len(s) |-> IF s[i] \in DOMAIN Mayusculas THEN Mayusculas[s[i]] ELSE s[i]]

RECURSIVE lstrip(_)
lstrip(s) ==
    IF s # <<>> /\ Head(s) \in Espacios THEN lstrip(Tail(s)) ELSE s

RECURSIVE rstrip(_)
rstrip(s) ==
    IF s # <<>> /\ s[Len(s)] \in Espacios THEN rstrip(SubSeq(s, 1, Len(s) - 1)) ELSE s

\* str.strip()
strip(s) == rstrip(lstrip(s))

\* sub in s
Contiene(s, sub) ==
    \E i \in 0..(Len(s) - Len(sub)) : SubSeq(s, i + 1, i + Len(sub)) = sub

Digito(d) ==
    CASE d = 0 -> "0" [] d = 1 -> "1" [] d = 2 -> "2" [] d = 3 -> "3"
      [] d = 4 -> "4" [] d = 5 -> "5" [] d = 6 -> "6" [] d = 7 -> "7"
      [] d = 8 -> "8" [] d = 9 -> "9"

\* str(n) for n >= 0, as an f-string formats an int
RECURSIVE IntToStr(_)
IntToStr(n) ==
    IF n < 10 THEN <<Digito(n)>> ELSE IntToStr(n \div 10) \o <<Digito(n % 10)>>

\* str(b) for a bool, as an f-string formats it
BoolToStr(b) == IF b THEN <<"T", "r", "u", "e">> ELSE <<"F", "a", "l", "s", "e">>

----------------------------------------------------------------------------
(* Entities *)

Libro(id, titulo, autor, isbn, disponible) ==
    [id |-> id, titulo |-> titulo, autor |-> autor, isbn |-> isbn,
     disponible |-> disponible]

Prestamo(id, libro_id, usuario, fecha) ==
    [id |-> id, libro_id |-> libro_id, usuario |-> usuario, fecha |-> fecha,
     devuelto |-> FALSE]

----------------------------------------------------------------------------
(* Returned strings: a str is the sequence of its lines, a line being a     *)
(* message template and the values formatted into it.                       *)

Linea(texto, args) == [texto |-> texto, args |-> args]

ErrTitulo == "Error: Título inválido - debe tener al menos 2 caracteres"
ErrAutor == "Error: Autor inválido - debe tener al menos 3 caracteres"
ErrISBN == "Error: ISBN inválido - debe tener al menos 10 caracteres"
ErrUsuario == "Error: Nombre de usuario inválido - debe tener al menos 3 caracteres"
ErrPrestamoNoEncontrado == "Error: Préstamo no encontrado"
ErrYaDevuelto == "Error: Libro ya devuelto"
ErrLibroNoEncontrado == "Error: Libro no encontrado"
ErrNoDisponible == "Error: Libro no disponible"
ErrTituloDIP == "Error: Título inválido"
ErrAutorDIP == "Error: Autor inválido"
ErrISBNDIP == "Error: ISBN inválido"
ErrUsuarioDIP == "Error: Nombre de usuario inválido"
MsgLibroAgregado == "Libro '{titulo}' agregado exitosamente (ID: {id})"
MsgPrestamoRealizado == "Préstamo realizado a {usuario} (ID Préstamo: {id})"
MsgLibroDevuelto == "Libro devuelto exitosamente"

\* "\n".join(errores): one line per message
Join(errores) == [i \in 1..Len(errores) |-> Linea(errores[i], <<>>)]

----------------------------------------------------------------------------
(* ValidadorBiblioteca (ejercicio02.py) *)

validar_libro(titulo, autor, isbn) ==
    (IF titulo = <<>> \/ Len(strip(titulo)) < 2 THEN <<ErrTitulo>> ELSE <<>>)
    \o (IF autor = <<>> \/ Len(strip(autor)) < 3 THEN <<ErrAutor>> ELSE <<>>)
    \o (IF isbn = <<>> \/ Len(strip(isbn)) < 10 THEN <<ErrISBN>> ELSE <<>>)

validar_usuario(usuario) ==
    IF usuario = <<>> \/ Len(strip(usuario)) < 3 THEN <<ErrUsuario>> ELSE <<>>

\* validar_prestamo_existente without its "elif prestamo.devuelto" branch
validar_prestamo_existente_sin_devuelto(ps, i) ==
    IF i = 0 THEN <<ErrPrestamoNoEncontrado>> ELSE <<>>

\* ps: the stored loans, i: the looked-up loan's position, 0 for None
validar_prestamo_existente(ps, i) ==
    IF i = 0 THEN <<ErrPrestamoNoEncontrado>>
    ELSE IF ps[i].devuelto THEN <<ErrYaDevuelto>>
    ELSE <<>>

\* validar_libro_disponible without its "elif ... not libro.disponible" branch
validar_libro_disponible_sin_estado(ls, i) ==
    IF i = 0 THEN <<ErrLibroNoEncontrado>> ELSE <<>>

\* ls: the stored books, i: the looked-up book's position, 0 for None
validar_libro_disponible(ls, i) ==
    IF i = 0 THEN <<ErrLibroNoEncontrado>>
    ELSE IF ~ls[i].disponible THEN <<ErrNoDisponible>>
    ELSE <<>>

----------------------------------------------------------------------------
(* Backing file.  A file is [existe, lineas]; a line is a str without its   *)
(* newline.                                                                 *)

SinArchivo == [existe |-> FALSE, lineas |-> <<>>]

Barra == <<"|">>
TxtLibros == <<"L", "i", "b", "r", "o", "s", ":", " ">>
TxtPrestamos == <<"P", "r", "é", "s", "t", "a", "m", "o", "s", ":", " ">>
TagLibro == <<"L", "I", "B", "R", "O">>
TagPrestamo == <<"P", "R", "E", "S", "T", "A", "M", "O">>

LineaLibro(l) ==
    TagLibro \o Barra \o IntToStr(l.id) \o Barra \o l.titulo \o Barra
    \o l.autor \o Barra \o l.isbn \o Barra \o BoolToStr(l.disponible)

LineaPrestamo(p) ==
    TagPrestamo \o Barra \o IntToStr(p.id) \o Barra \o IntToStr(p.libro_id)
    \o Barra \o p.usuario \o Barra \o p.fecha \o Barra \o BoolToStr(p.devuelto)

----------------------------------------------------------------------------
(* Repositories.  A repository is a record                                  *)
(*   [clase, libros, prestamos, contador_libro, contador_prestamo, archivo] *)
(* and each method maps the repository before the call to the one after.    *)

ClaseBiblioteca == "RepositorioBiblioteca"
ClaseArchivo == "RepositorioArchivo"
ClaseMemoria == "RepositorioMemoria"

Encabezado(r) ==
    <<TxtLibros \o IntToStr(Len(r.libros)),
      TxtPrestamos \o IntToStr(Len(r.prestamos))>>

\* _guardar_en_archivo of RepositorioArchivo without the loop over the loans
guardar_en_archivo_sin_prestamos(r) ==
    CASE r.clase = ClaseBiblioteca ->
           [r EXCEPT !.archivo = [existe |-> TRUE, lineas |-> Encabezado(r)]]
      [] r.clase = ClaseArchivo ->
           [r EXCEPT !.archivo =
               [existe |-> TRUE,
                lineas |-> Encabezado(r)
                           \o [i \in 1..Len(r.libros) |-> LineaLibro(r.libros[i])]]]
      [] r.clase = ClaseMemoria -> r

guardar_en_archivo(r) ==
    CASE r.clase = ClaseBiblioteca ->
           [r EXCEPT !.archivo = [existe |-> TRUE, lineas |-> Encabezado(r)]]
      [] r.clase = ClaseArchivo ->
           [r EXCEPT !.archivo =
               [existe |-> TRUE,
                lineas |-> Encabezado(r)
                           \o [i \in 1..Len(r.libros) |-> LineaLibro(r.libros[i])]
                           \o [i \in 1..Len(r.prestamos) |-> LineaPrestamo(r.prestamos[i])]]]
      [] r.clase = ClaseMemoria -> r

\* the index of the last record with the id, where the loop reaches the first
PrimerIndice_ultimo(rs, id) ==
    IF \E i \in 1..Len(rs) : rs[i].id = id
    THEN CHOOSE i \in 1..Len(rs) :
            rs[i].id = id /\ \A j \in (i + 1)..Len(rs) : rs[j].id # id
    ELSE 0

\* position of the first record of rs with this id, 0 when there is none
PrimerIndice(rs, id) ==
    IF \E i \in 1..Len(rs) : rs[i].id = id
    THEN CHOOSE i \in 1..Len(rs) :
            rs[i].id = id /\ \A j \in 1..(i - 1) : rs[j].id # id
    ELSE 0

\* agregar_libro taking the id from the length of the list, not from the counter
Repo_agregar_libro_por_longitud(r, libro) ==
    guardar_en_archivo(
        [r EXCEPT !.libros = Append(@, [libro EXCEPT !.id = Len(r.libros)]),
                  !.contador_libro = @ + 1])

Repo_agregar_libro(r, libro) ==
    guardar_en_archivo(
        [r EXCEPT !.libros = Append(@, [libro EXCEPT !.id = r.contador_libro]),
                  !.contador_libro = @ + 1])

\* obtener_libro_por_id returning the first stored book whatever the id
Repo_obtener_libro_por_id_cualquiera(r, libro_id) ==
    IF r.libros = <<>> THEN 0 ELSE 1

Repo_obtener_libro_por_id(r, libro_id) == PrimerIndice(r.libros, libro_id)

Repo_obtener_todos_libros(r) == r.libros

Repo_obtener_libros_disponibles(r) == SelectSeq(r.libros, LAMBDA l : l.disponible)

\* actualizar_libro with the assignment outside the "if l.id == libro.id" test
Repo_actualizar_libro_sin_if(r, libro) ==
    guardar_en_archivo(
        IF r.libros = <<>> THEN r ELSE [r EXCEPT !.libros[1] = libro])

Repo_actualizar_libro(r, libro) ==
    LET i == PrimerIndice(r.libros, libro.id)
    IN guardar_en_archivo(IF i = 0 THEN r ELSE [r EXCEPT !.libros[i] = libro])

\* agregar_prestamo with "self.prestamos = [prestamo]" for the append
Repo_agregar_prestamo_sin_append(r, prestamo) ==
    guardar_en_archivo(
        [r EXCEPT !.prestamos = <<[prestamo EXCEPT !.id = r.contador_prestamo]>>,
                  !.contador_prestamo = @ + 1])

Repo_agregar_prestamo(r, prestamo) ==
    guardar_en_archivo(
        [r EXCEPT !.prestamos = Append(@, [prestamo EXCEPT !.id = r.contador_prestamo]),
                  !.contador_prestamo = @ + 1])

Repo_obtener_prestamo_por_id(r, prestamo_id) == PrimerIndice(r.prestamos, prestamo_id)

\* obtener_prestamos_activos of RepositorioMemoria with "return self.prestamos.copy()"
Repo_obtener_prestamos_activos_memoria_todos(r) ==
    IF r.clase = ClaseMemoria
    THEN r.prestamos
    ELSE SelectSeq(r.prestamos, LAMBDA p : ~p.devuelto)

Repo_obtener_prestamos_activos(r) == SelectSeq(r.prestamos, LAMBDA p : ~p.devuelto)

\* actualizar_prestamo with "self.prestamos.pop(i)"
Repo_actualizar_prestamo_quita(r, prestamo) ==
    LET i == PrimerIndice(r.prestamos, prestamo.id)
    IN guardar_en_archivo(
          IF i = 0 THEN r
          ELSE [r EXCEPT !.prestamos =
                   SubSeq(r.prestamos, 1, i - 1)
                   \o SubSeq(r.prestamos, i + 1, Len(r.prestamos))])

Repo_actualizar_prestamo(r, prestamo) ==
    LET i == PrimerIndice(r.prestamos, prestamo.id)
    IN guardar_en_archivo(IF i = 0 THEN r ELSE [r EXCEPT !.prestamos[i] = prestamo])

----------------------------------------------------------------------------
(* Search strategies (ejercicio01.py) *)

\* BusquedaPorTitulo.buscar with "resultados.insert(0, libro)"
BusquedaPorTitulo_al_frente(ls, valor) ==
    LET r == SelectSeq(ls, LAMBDA l : Contiene(lower(l.titulo), lower(valor)))
    IN [i \in 1..Len(r) |-> r[Len(r) + 1 - i]]

BusquedaPorTitulo(ls, valor) ==
    SelectSeq(ls, LAMBDA l : Contiene(lower(l.titulo), lower(valor)))

BusquedaPorAutor(ls, valor) ==
    SelectSeq(ls, LAMBDA l : Contiene(lower(l.autor), lower(valor)))

\* BusquedaPorISBN.buscar with "if valor in libro.isbn"
BusquedaPorISBN_subcadena(ls, valor) ==
    SelectSeq(ls, LAMBDA l : Contiene(l.isbn, valor))

BusquedaPorISBN(ls, valor) ==
    SelectSeq(ls, LAMBDA l : l.isbn = valor)

Afirmativos ==
    {<<"t", "r", "u", "e">>, <<"1">>, <<"s", "i">>, <<"s", "í">>, <<"y", "e", "s">>}

BusquedaPorDisponibilidad(ls, valor) ==
    LET disponible == lower(valor) \in Afirmativos
    IN SelectSeq(ls, LAMBDA l : l.disponible = disponible)

----------------------------------------------------------------------------
(* Results and notifications *)

SinResultado == [tipo |-> "ninguno", valor |-> <<>>]
Str(lineas) == [tipo |-> "str", valor |-> lineas]
Lista(xs) == [tipo |-> "lista", valor |-> xs]
Excepcion(clase) == [tipo |-> "excepcion", valor |-> clase]

\* enviar_notificacion_prestamo called as (titulo_libro, usuario)
enviar_notificacion_prestamo_al_reves(usuario, titulo_libro) ==
    Linea("[NOTIFICACIÓN] {usuario}: Préstamo de '{titulo_libro}' realizado exitosamente",
          <<titulo_libro, usuario>>)

\* ServicioNotificaciones.enviar_notificacion_prestamo (ejercicio02.py)
enviar_notificacion_prestamo(usuario, titulo_libro) ==
    Linea("[NOTIFICACIÓN] {usuario}: Préstamo de '{titulo_libro}' realizado exitosamente",
          <<usuario, titulo_libro>>)

\* ServicioNotificaciones.enviar_notificacion_devolucion (ejercicio02.py)
enviar_notificacion_devolucion(usuario, titulo_libro) ==
    Linea("[NOTIFICACIÓN] {usuario}: Devolución de '{titulo_libro}' realizada exitosamente",
          <<usuario, titulo_libro>>)

\* the print calls of SistemaBibliotecaDIP (ejercicio03.py)
ImprimirPrestamoDIP(usuario, titulo) ==
    Linea("[NOTIFICACIÓN] {usuario}: Préstamo de '{libro.titulo}'", <<usuario, titulo>>)

ImprimirDevolucionDIP(usuario, titulo) ==
    Linea("[NOTIFICACIÓN] {prestamo.usuario}: Devolución de '{libro.titulo}'",
          <<usuario, titulo>>)

----------------------------------------------------------------------------
(* Inputs *)

T_A == <<"A">>
T_Blancos == <<" ", " ", " ">>
T_1984 == <<"1", "9", "8", "4">>
A_B == <<"B">>
A_Orwell == <<"G", "e", "o", "r", "g", "e", " ", "O", "r", "w", "e", "l", "l">>
I_123 == <<"1", "2", "3">>
I_1984 == <<"9", "7", "8", "0", "4", "5", "1", "5", "2", "4", "9", "3", "5">>
U_Jo == <<"J", "o">>
U_Juan == <<"J", "u", "a", "n", " ", "P", "é", "r", "e", "z">>
F_Hoy == <<"2", "0", "2", "6", "-", "1", "1", "-", "0", "5">>

\* the books the caller tries to add: <<titulo, autor, isbn>>
Altas ==
    {<<T_A, A_B, I_123>>, <<T_A, A_Orwell, I_1984>>, <<T_Blancos, A_Orwell, I_1984>>,
     <<T_1984, A_B, I_1984>>, <<T_1984, A_Orwell, I_123>>, <<T_1984, A_B, I_123>>,
     <<<<>>, A_Orwell, I_1984>>, <<T_1984, A_Orwell, I_1984>>}
Usuarios == {U_Jo, U_Juan}
Fechas == {F_Hoy}
V_TRUE == <<"T", "R", "U", "E">>
V_Si == <<"S", "i">>
V_84 == <<"8", "4">>
\* the searches the caller makes: <<criterio, valor>>
Busquedas ==
    {<<"titulo", V_84>>, <<"autor", <<>>>>, <<"isbn", I_1984>>,
     <<"disponible", V_TRUE>>, <<"disponible", V_Si>>, <<"disponible", <<>>>>,
     <<"editorial", V_84>>}

VarianteSRP == "SRP"
VarianteArchivo == "DIP_Archivo"
VarianteMemoria == "DIP_Memoria"
VariantesDIP == {VarianteArchivo, VarianteMemoria}

----------------------------------------------------------------------------
(* State of the running system as a repository record, and back *)

ClaseDe(v) ==
    CASE v = VarianteSRP -> ClaseBiblioteca
      [] v = VarianteArchivo -> ClaseArchivo
      [] v = VarianteMemoria -> ClaseMemoria

repositorio ==
    [clase |-> ClaseDe(variante), libros |-> libros, prestamos |-> prestamos,
     contador_libro |-> contador_libro, contador_prestamo |-> contador_prestamo,
     archivo |-> archivo]

Queda(r) ==
    /\ libros' = r.libros
    /\ prestamos' = r.prestamos
    /\ contador_libro' = r.contador_libro
    /\ contador_prestamo' = r.contador_prestamo
    /\ archivo' = r.archivo

\* a call that changes nothing and still rewrites the store
SinCambios_guarda ==
    /\ notificaciones' = <<>>
    /\ archivo' = guardar_en_archivo(repositorio).archivo
    /\ UNCHANGED <<libros, prestamos, contador_libro, contador_prestamo,
                   asignados_libro, asignados_prestamo>>

SinCambios ==
    /\ notificaciones' = <<>>
    /\ UNCHANGED <<libros, prestamos, contador_libro, contador_prestamo, archivo,
                   asignados_libro, asignados_prestamo>>

Libre == "libre"
SinGemelo == <<>>

\* the turns of a run of two systems that receive the same calls: the first
\* system is called, steps aside, the second is called, steps aside
TurnoPrimero == "primero"
HechoPrimero == "primero llamado"
TurnoSegundo == "segundo"
HechoSegundo == "segundo llamado"

TrasLlamada(f) ==
    CASE f = TurnoPrimero -> HechoPrimero
      [] f = TurnoSegundo -> HechoSegundo
      [] OTHER -> Libre

Llamada(op, args) ==
    /\ ultima' = [op |-> op, args |-> args]
    /\ previo' = [libros |-> libros, prestamos |-> prestamos]
    /\ fase' = TrasLlamada(fase)

\* RepositorioBiblioteca.__init__, RepositorioMemoria.__init__ and
\* RepositorioArchivo.__init__ when the backing file does not exist
Init ==
    /\ variante \in {VarianteSRP, VarianteArchivo, VarianteMemoria}
    /\ libros = <<>>
    /\ prestamos = <<>>
    /\ contador_libro = 1
    /\ contador_prestamo = 1
    /\ archivo = SinArchivo
    /\ notificaciones = <<>>
    /\ ultima = [op |-> "__init__", args |-> <<>>]
    /\ resultado = SinResultado
    /\ asignados_libro = <<>>
    /\ asignados_prestamo = <<>>
    /\ estrategias = <<>>
    /\ previo = [libros |-> <<>>, prestamos |-> <<>>]
    /\ fase = Libre
    /\ gemelo = SinGemelo

----------------------------------------------------------------------------
(* SistemaBibliotecaRefactorizado (ejercicio02.py) *)

agregar_libro_SRP(titulo, autor, isbn) ==
    /\ variante = VarianteSRP
    /\ Llamada("agregar_libro", <<titulo, autor, isbn>>)
    /\ LET errores == validar_libro(titulo, autor, isbn)
       IN IF errores # <<>>
          THEN /\ resultado' = Str(Join(errores))
               /\ SinCambios
          ELSE LET r1 == Repo_agregar_libro(repositorio, Libro(None, titulo, autor, isbn, TRUE))
                   libro_guardado == r1.libros[Len(r1.libros)]
               IN /\ Len(libros) < MaxLibros
                  /\ Queda(r1)
                  /\ asignados_libro' = Append(asignados_libro, libro_guardado.id)
                  /\ resultado' = Str(<<Linea(MsgLibroAgregado, <<titulo, libro_guardado.id>>)>>)
                  /\ notificaciones' = <<>>
                  /\ UNCHANGED asignados_prestamo
    /\ UNCHANGED <<variante, estrategias, gemelo>>

buscar_SRP(ls, criterio, valor) ==
    CASE criterio = "titulo" ->
           SelectSeq(ls, LAMBDA l : Contiene(lower(l.titulo), lower(valor)))
      [] criterio = "autor" ->
           SelectSeq(ls, LAMBDA l : Contiene(lower(l.autor), lower(valor)))
      [] criterio = "isbn" ->
           SelectSeq(ls, LAMBDA l : l.isbn = valor)
      [] criterio = "disponible" ->
           LET disponible == lower(valor) = <<"t", "r", "u", "e">>
           IN SelectSeq(ls, LAMBDA l : l.disponible = disponible)
      [] OTHER -> <<>>

buscar_libro_SRP(criterio, valor) ==
    /\ variante = VarianteSRP
    /\ Llamada("buscar_libro", <<criterio, valor>>)
    /\ resultado' = Lista(buscar_SRP(Repo_obtener_todos_libros(repositorio), criterio, valor))
    /\ SinCambios
    /\ UNCHANGED <<variante, estrategias, gemelo>>

\* realizar_prestamo storing the loan before it validates the book
realizar_prestamo_SRP_valida_tarde(libro_id, usuario, fecha) ==
    /\ variante = VarianteSRP
    /\ Llamada("realizar_prestamo", <<libro_id, usuario>>)
    /\ LET errores_usuario == validar_usuario(usuario)
           i == Repo_obtener_libro_por_id(repositorio, libro_id)
           errores_libro == validar_libro_disponible(libros, i)
           r1 == Repo_agregar_prestamo(repositorio, Prestamo(None, libro_id, usuario, fecha))
           prestamo_guardado == r1.prestamos[Len(r1.prestamos)]
       IN IF errores_usuario # <<>>
          THEN /\ resultado' = Str(Join(errores_usuario))
               /\ SinCambios
          ELSE /\ Len(prestamos) < MaxPrestamos
               /\ asignados_prestamo' = Append(asignados_prestamo, prestamo_guardado.id)
               /\ UNCHANGED asignados_libro
               /\ IF errores_libro # <<>>
                  THEN /\ resultado' = Str(Join(errores_libro))
                       /\ Queda(r1)
                       /\ notificaciones' = <<>>
                  ELSE LET r2 == [r1 EXCEPT !.libros[i].disponible = FALSE]
                           r3 == Repo_actualizar_libro(r2, r2.libros[i])
                       IN /\ Queda(r3)
                          /\ notificaciones' =
                                <<enviar_notificacion_prestamo(usuario, r2.libros[i].titulo)>>
                          /\ resultado' =
                                Str(<<Linea(MsgPrestamoRealizado,
                                            <<usuario, prestamo_guardado.id>>)>>)
    /\ UNCHANGED <<variante, estrategias, gemelo>>

realizar_prestamo_SRP(libro_id, usuario, fecha) ==
    /\ variante = VarianteSRP
    /\ Llamada("realizar_prestamo", <<libro_id, usuario>>)
    /\ LET errores_usuario == validar_usuario(usuario)
           i == Repo_obtener_libro_por_id(repositorio, libro_id)
           errores_libro == validar_libro_disponible(libros, i)
       IN IF errores_usuario # <<>>
          THEN /\ resultado' = Str(Join(errores_usuario))
               /\ SinCambios
          ELSE IF errores_libro # <<>>
          THEN /\ resultado' = Str(Join(errores_libro))
               /\ SinCambios
          ELSE LET r1 == Repo_agregar_prestamo(repositorio,
                                               Prestamo(None, libro_id, usuario, fecha))
                   prestamo_guardado == r1.prestamos[Len(r1.prestamos)]
                   r2 == [r1 EXCEPT !.libros[i].disponible = FALSE]
                   r3 == Repo_actualizar_libro(r2, r2.libros[i])
               IN /\ Len(prestamos) < MaxPrestamos
                  /\ Queda(r3)
                  /\ asignados_prestamo' = Append(asignados_prestamo, prestamo_guardado.id)
                  /\ notificaciones' =
                        <<enviar_notificacion_prestamo(usuario, r2.libros[i].titulo)>>
                  /\ resultado' =
                        Str(<<Linea(MsgPrestamoRealizado, <<usuario, prestamo_guardado.id>>)>>)
                  /\ UNCHANGED asignados_libro
    /\ UNCHANGED <<variante, estrategias, gemelo>>

\* devolver_libro notifying outside the "if libro:" test, with an empty title
\* when there is no book
devolver_libro_SRP_avisa_siempre(prestamo_id) ==
    /\ variante = VarianteSRP
    /\ Llamada("devolver_libro", <<prestamo_id>>)
    /\ LET j == Repo_obtener_prestamo_por_id(repositorio, prestamo_id)
           errores == validar_prestamo_existente(prestamos, j)
       IN IF errores # <<>>
          THEN /\ resultado' = Str(Join(errores))
               /\ SinCambios
          ELSE LET i == Repo_obtener_libro_por_id(repositorio, prestamos[j].libro_id)
                   r1 == IF i # 0
                         THEN LET m == [repositorio EXCEPT !.libros[i].disponible = TRUE]
                              IN Repo_actualizar_libro(m, m.libros[i])
                         ELSE repositorio
                   r2 == [r1 EXCEPT !.prestamos[j].devuelto = TRUE]
                   r3 == Repo_actualizar_prestamo(r2, r2.prestamos[j])
               IN /\ Queda(r3)
                  /\ notificaciones' =
                        <<enviar_notificacion_devolucion(
                             prestamos[j].usuario,
                             IF i # 0 THEN r1.libros[i].titulo ELSE <<>>)>>
                  /\ resultado' = Str(<<Linea(MsgLibroDevuelto, <<>>)>>)
                  /\ UNCHANGED <<asignados_libro, asignados_prestamo>>
    /\ UNCHANGED <<variante, estrategias, gemelo>>

devolver_libro_SRP(prestamo_id) ==
    /\ variante = VarianteSRP
    /\ Llamada("devolver_libro", <<prestamo_id>>)
    /\ LET j == Repo_obtener_prestamo_por_id(repositorio, prestamo_id)
           errores == validar_prestamo_existente(prestamos, j)
       IN IF errores # <<>>
          THEN /\ resultado' = Str(Join(errores))
               /\ SinCambios
          ELSE LET i == Repo_obtener_libro_por_id(repositorio, prestamos[j].libro_id)
                   r1 == IF i # 0
                         THEN LET m == [repositorio EXCEPT !.libros[i].disponible = TRUE]
                              IN Repo_actualizar_libro(m, m.libros[i])
                         ELSE repositorio
                   r2 == [r1 EXCEPT !.prestamos[j].devuelto = TRUE]
                   r3 == Repo_actualizar_prestamo(r2, r2.prestamos[j])
               IN /\ Queda(r3)
                  /\ notificaciones' =
                        IF i # 0
                        THEN <<enviar_notificacion_devolucion(prestamos[j].usuario,
                                                              r1.libros[i].titulo)>>
                        ELSE <<>>
                  /\ resultado' = Str(<<Linea(MsgLibroDevuelto, <<>>)>>)
                  /\ UNCHANGED <<asignados_libro, asignados_prestamo>>
    /\ UNCHANGED <<variante, estrategias, gemelo>>

obtener_todos_libros_SRP ==
    /\ variante = VarianteSRP
    /\ Llamada("obtener_todos_libros", <<>>)
    /\ resultado' = Lista(Repo_obtener_todos_libros(repositorio))
    /\ SinCambios
    /\ UNCHANGED <<variante, estrategias, gemelo>>

obtener_libros_disponibles_SRP ==
    /\ variante = VarianteSRP
    /\ Llamada("obtener_libros_disponibles", <<>>)
    /\ resultado' = Lista(Repo_obtener_libros_disponibles(repositorio))
    /\ SinCambios
    /\ UNCHANGED <<variante, estrategias, gemelo>>

obtener_prestamos_activos_SRP ==
    /\ variante = VarianteSRP
    /\ Llamada("obtener_prestamos_activos", <<>>)
    /\ resultado' = Lista(Repo_obtener_prestamos_activos(repositorio))
    /\ SinCambios
    /\ UNCHANGED <<variante, estrategias, gemelo>>

----------------------------------------------------------------------------
(* SistemaBibliotecaDIP (ejercicio03.py) *)

agregar_libro_DIP(titulo, autor, isbn) ==
    /\ variante \in VariantesDIP
    /\ Llamada("agregar_libro", <<titulo, autor, isbn>>)
    /\ IF titulo = <<>> \/ Len(titulo) < 2
       THEN /\ resultado' = Str(<<Linea(ErrTituloDIP, <<>>)>>)
            /\ SinCambios
       ELSE IF autor = <<>> \/ Len(autor) < 3
       THEN /\ resultado' = Str(<<Linea(ErrAutorDIP, <<>>)>>)
            /\ SinCambios
       ELSE IF isbn = <<>> \/ Len(isbn) < 10
       THEN /\ resultado' = Str(<<Linea(ErrISBNDIP, <<>>)>>)
            /\ SinCambios
       ELSE LET r1 == Repo_agregar_libro(repositorio, Libro(None, titulo, autor, isbn, TRUE))
                libro_guardado == r1.libros[Len(r1.libros)]
            IN /\ Len(libros) < MaxLibros
               /\ Queda(r1)
               /\ asignados_libro' = Append(asignados_libro, libro_guardado.id)
               /\ resultado' = Str(<<Linea(MsgLibroAgregado, <<titulo, libro_guardado.id>>)>>)
               /\ notificaciones' = <<>>
               /\ UNCHANGED asignados_prestamo
    /\ UNCHANGED <<variante, estrategias, gemelo>>

buscar_DIP(ls, criterio, valor) ==
    CASE criterio = "titulo" ->
           SelectSeq(ls, LAMBDA l : Contiene(lower(l.titulo), lower(valor)))
      [] criterio = "autor" ->
           SelectSeq(ls, LAMBDA l : Contiene(lower(l.autor), lower(valor)))
      [] criterio = "isbn" ->
           SelectSeq(ls, LAMBDA l : l.isbn = valor)
      [] criterio = "disponible" ->
           LET disponible == lower(valor) = <<"t", "r", "u", "e">>
           IN SelectSeq(ls, LAMBDA l : l.disponible = disponible)
      [] OTHER -> <<>>

buscar_libro_DIP(criterio, valor) ==
    /\ variante \in VariantesDIP
    /\ Llamada("buscar_libro", <<criterio, valor>>)
    /\ resultado' = Lista(buscar_DIP(Repo_obtener_todos_libros(repositorio), criterio, valor))
    /\ SinCambios
    /\ UNCHANGED <<variante, estrategias, gemelo>>

realizar_prestamo_DIP(libro_id, usuario, fecha) ==
    /\ variante \in VariantesDIP
    /\ Llamada("realizar_prestamo", <<libro_id, usuario>>)
    /\ LET i == Repo_obtener_libro_por_id(repositorio, libro_id)
       IN IF usuario = <<>> \/ Len(usuario) < 3
          THEN /\ resultado' = Str(<<Linea(ErrUsuarioDIP, <<>>)>>)
               /\ SinCambios
          ELSE IF i = 0
          THEN /\ resultado' = Str(<<Linea(ErrLibroNoEncontrado, <<>>)>>)
               /\ SinCambios
          ELSE IF ~libros[i].disponible
          THEN /\ resultado' = Str(<<Linea(ErrNoDisponible, <<>>)>>)
               /\ SinCambios
          ELSE LET r1 == Repo_agregar_prestamo(repositorio,
                                               Prestamo(None, libro_id, usuario, fecha))
                   prestamo_guardado == r1.prestamos[Len(r1.prestamos)]
                   r2 == [r1 EXCEPT !.libros[i].disponible = FALSE]
                   r3 == Repo_actualizar_libro(r2, r2.libros[i])
               IN /\ Len(prestamos) < MaxPrestamos
                  /\ Queda(r3)
                  /\ asignados_prestamo' = Append(asignados_prestamo, prestamo_guardado.id)
                  /\ notificaciones' =
                        <<ImprimirPrestamoDIP(usuario, r2.libros[i].titulo)>>
                  /\ resultado' =
                        Str(<<Linea(MsgPrestamoRealizado, <<usuario, prestamo_guardado.id>>)>>)
                  /\ UNCHANGED asignados_libro
    /\ UNCHANGED <<variante, estrategias, gemelo>>

\* devolver_libro without "libro.disponible = True"
devolver_libro_DIP_sin_libro(prestamo_id) ==
    /\ variante \in VariantesDIP
    /\ Llamada("devolver_libro", <<prestamo_id>>)
    /\ LET j == Repo_obtener_prestamo_por_id(repositorio, prestamo_id)
       IN IF j = 0
          THEN /\ resultado' = Str(<<Linea(ErrPrestamoNoEncontrado, <<>>)>>)
               /\ SinCambios
          ELSE IF prestamos[j].devuelto
          THEN /\ resultado' = Str(<<Linea(ErrYaDevuelto, <<>>)>>)
               /\ SinCambios
          ELSE LET i == Repo_obtener_libro_por_id(repositorio, prestamos[j].libro_id)
                   r1 == IF i # 0
                         THEN Repo_actualizar_libro(repositorio, libros[i])
                         ELSE repositorio
                   r2 == [r1 EXCEPT !.prestamos[j].devuelto = TRUE]
                   r3 == Repo_actualizar_prestamo(r2, r2.prestamos[j])
               IN /\ Queda(r3)
                  /\ notificaciones' =
                        IF i # 0
                        THEN <<ImprimirDevolucionDIP(prestamos[j].usuario,
                                                     r1.libros[i].titulo)>>
                        ELSE <<>>
                  /\ resultado' = Str(<<Linea(MsgLibroDevuelto, <<>>)>>)
                  /\ UNCHANGED <<asignados_libro, asignados_prestamo>>
    /\ UNCHANGED <<variante, estrategias, gemelo>>

devolver_libro_DIP(prestamo_id) ==
    /\ variante \in VariantesDIP
    /\ Llamada("devolver_libro", <<prestamo_id>>)
    /\ LET j == Repo_obtener_prestamo_por_id(repositorio, prestamo_id)
       IN IF j = 0
          THEN /\ resultado' = Str(<<Linea(ErrPrestamoNoEncontrado, <<>>)>>)
               /\ SinCambios
          ELSE IF prestamos[j].devuelto
          THEN /\ resultado' = Str(<<Linea(ErrYaDevuelto, <<>>)>>)
               /\ SinCambios
          ELSE LET i == Repo_obtener_libro_por_id(repositorio, prestamos[j].libro_id)
                   r1 == IF i # 0
                         THEN LET m == [repositorio EXCEPT !.libros[i].disponible = TRUE]
                              IN Repo_actualizar_libro(m, m.libros[i])
                         ELSE repositorio
                   r2 == [r1 EXCEPT !.prestamos[j].devuelto = TRUE]
                   r3 == Repo_actualizar_prestamo(r2, r2.prestamos[j])
               IN /\ Queda(r3)
                  /\ notificaciones' =
                        IF i # 0
                        THEN <<ImprimirDevolucionDIP(prestamos[j].usuario,
                                                     r1.libros[i].titulo)>>
                        ELSE <<>>
                  /\ resultado' = Str(<<Linea(MsgLibroDevuelto, <<>>)>>)
                  /\ UNCHANGED <<asignados_libro, asignados_prestamo>>
    /\ UNCHANGED <<variante, estrategias, gemelo>>

obtener_todos_libros_DIP ==
    /\ variante \in VariantesDIP
    /\ Llamada("obtener_todos_libros", <<>>)
    /\ resultado' = Lista(Repo_obtener_todos_libros(repositorio))
    /\ SinCambios
    /\ UNCHANGED <<variante, estrategias, gemelo>>

obtener_libros_disponibles_DIP ==
    /\ variante \in VariantesDIP
    /\ Llamada("obtener_libros_disponibles", <<>>)
    /\ resultado' = Lista(Repo_obtener_libros_disponibles(repositorio))
    /\ SinCambios
    /\ UNCHANGED <<variante, estrategias, gemelo>>

obtener_prestamos_activos_DIP ==
    /\ variante \in VariantesDIP
    /\ Llamada("obtener_prestamos_activos", <<>>)
    /\ resultado' = Lista(Repo_obtener_prestamos_activos(repositorio))
    /\ SinCambios
    /\ UNCHANGED <<variante, estrategias, gemelo>>

----------------------------------------------------------------------------
(* The services driven by one sequential caller *)

IdsLibro == 1..(MaxLibros + 1)
IdsPrestamo == 1..(MaxPrestamos + 1)

Next ==
    \/ \E b \in Altas : agregar_libro_SRP(b[1], b[2], b[3])
    \/ \E b \in Busquedas : buscar_libro_SRP(b[1], b[2])
    \/ \E id \in IdsLibro, u \in Usuarios, f \in Fechas : realizar_prestamo_SRP(id, u, f)
    \/ \E id \in IdsPrestamo : devolver_libro_SRP(id)
    \/ obtener_todos_libros_SRP
    \/ obtener_libros_disponibles_SRP
    \/ obtener_prestamos_activos_SRP
    \/ \E b \in Altas : agregar_libro_DIP(b[1], b[2], b[3])
    \/ \E b \in Busquedas : buscar_libro_DIP(b[1], b[2])
    \/ \E id \in IdsLibro, u \in Usuarios, f \in Fechas : realizar_prestamo_DIP(id, u, f)
    \/ \E id \in IdsPrestamo : devolver_libro_DIP(id)
    \/ obtener_todos_libros_DIP
    \/ obtener_libros_disponibles_DIP
    \/ obtener_prestamos_activos_DIP

Spec == Init /\ [][Next]_vars

----------------------------------------------------------------------------
(* The repository driven directly: any interleaving of its mutators, with   *)
(* records the caller built itself.                                         *)

Registro(x) == [tipo |-> "registro", valor |-> x]
Nada == [tipo |-> "None", valor |-> <<>>]

\* the ids a caller's record may carry: None, a stored id, an id not stored
IdsEntrada == 0..(MaxLibros + 1)

LibrosEntrada ==
    {Libro(id, T_1984, A_Orwell, I_1984, d) : id \in IdsEntrada, d \in BOOLEAN}

PrestamosEntrada ==
    {[Prestamo(id, 1, U_Juan, F_Hoy) EXCEPT !.devuelto = d] :
        id \in 0..(MaxPrestamos + 1), d \in BOOLEAN}

SinEfectoFuera ==
    /\ notificaciones' = <<>>
    /\ UNCHANGED <<variante, estrategias, gemelo>>

LlamarRepo_agregar_libro(libro) ==
    /\ Len(libros) < MaxLibros
    /\ Llamada("repo.agregar_libro", <<libro>>)
    /\ LET r1 == Repo_agregar_libro(repositorio, libro)
       IN /\ Queda(r1)
          /\ resultado' = Registro(r1.libros[Len(r1.libros)])
          /\ asignados_libro' = Append(asignados_libro, r1.libros[Len(r1.libros)].id)
    /\ UNCHANGED asignados_prestamo
    /\ SinEfectoFuera

LlamarRepo_actualizar_libro(libro) ==
    /\ Llamada("repo.actualizar_libro", <<libro>>)
    /\ Queda(Repo_actualizar_libro(repositorio, libro))
    /\ resultado' = Nada
    /\ UNCHANGED <<asignados_libro, asignados_prestamo>>
    /\ SinEfectoFuera

LlamarRepo_agregar_prestamo(prestamo) ==
    /\ Len(prestamos) < MaxPrestamos
    /\ Llamada("repo.agregar_prestamo", <<prestamo>>)
    /\ LET r1 == Repo_agregar_prestamo(repositorio, prestamo)
       IN /\ Queda(r1)
          /\ resultado' = Registro(r1.prestamos[Len(r1.prestamos)])
          /\ asignados_prestamo' =
                Append(asignados_prestamo, r1.prestamos[Len(r1.prestamos)].id)
    /\ UNCHANGED asignados_libro
    /\ SinEfectoFuera

LlamarRepo_actualizar_prestamo(prestamo) ==
    /\ Llamada("repo.actualizar_prestamo", <<prestamo>>)
    /\ Queda(Repo_actualizar_prestamo(repositorio, prestamo))
    /\ resultado' = Nada
    /\ UNCHANGED <<asignados_libro, asignados_prestamo>>
    /\ SinEfectoFuera

NextRepo ==
    \/ \E l \in LibrosEntrada : LlamarRepo_agregar_libro(l)
    \/ \E l \in LibrosEntrada : LlamarRepo_actualizar_libro(l)
    \/ \E p \in PrestamosEntrada : LlamarRepo_agregar_prestamo(p)
    \/ \E p \in PrestamosEntrada : LlamarRepo_actualizar_prestamo(p)

SpecRepo == Init /\ [][NextRepo]_vars

----------------------------------------------------------------------------
(* RepositorioArchivo: construction from the file (ejercicio03.py)          *)

\* s.split(sep) for a one-character sep: always at least one part
RECURSIVE split(_, _)
split(s, sep) ==
    IF \E k \in 1..Len(s) : s[k] = sep
    THEN LET k == CHOOSE k \in 1..Len(s) :
                     s[k] = sep /\ \A m \in 1..(k - 1) : s[m] # sep
         IN <<SubSeq(s, 1, k - 1)>> \o split(SubSeq(s, k + 1, Len(s)), sep)
    ELSE <<s>>

Digitos == {"0", "1", "2", "3", "4", "5", "6", "7", "8", "9"}

\* int(s) does not raise ValueError.  The stores considered hold decimal
\* digits or letters in the id fields, no signs, underscores or spaces.
EsEntero(s) == s # <<>> /\ \A k \in 1..Len(s) : s[k] \in Digitos

ValorDigito(c) == CHOOSE d \in 0..9 : Digito(d) = c

\* int(s) for a string of decimal digits
RECURSIVE int(_)
int(s) ==
    IF Len(s) = 1 THEN ValorDigito(s[1])
    ELSE 10 * int(SubSeq(s, 1, Len(s) - 1)) + ValorDigito(s[Len(s)])

max(a, b) == IF a >= b THEN a ELSE b

V_true == <<"t", "r", "u", "e">>

\* one pass of the "for linea in lineas" loop; e.error is set when the line
\* raises, before anything of it is appended
CargarLinea(linea, e) ==
    LET partes == split(strip(linea), "|")
    IN IF partes[1] = TagLibro /\ Len(partes) = 6
       THEN IF ~EsEntero(partes[2])
            THEN [e EXCEPT !.error = TRUE]
            ELSE LET libro_id == int(partes[2])
                 IN [e EXCEPT
                       !.libros = Append(@, Libro(libro_id, partes[3], partes[4],
                                                  partes[5], lower(partes[6]) = V_true)),
                       !.max_libro_id = max(@, libro_id)]
       ELSE IF partes[1] = TagPrestamo /\ Len(partes) = 6
       THEN IF ~EsEntero(partes[2]) \/ ~EsEntero(partes[3])
            THEN [e EXCEPT !.error = TRUE]
            ELSE LET prestamo_id == int(partes[2])
                 IN [e EXCEPT
                       !.prestamos =
                          Append(@, [Prestamo(prestamo_id, int(partes[3]),
                                              partes[4], partes[5])
                                        EXCEPT !.devuelto = (lower(partes[6]) = V_true)]),
                       !.max_prestamo_id = max(@, prestamo_id)]
       ELSE e

\* the loop from line k on; it ends at the first line that raises
RECURSIVE CargarLineas(_, _, _)
CargarLineas(lineas, k, e) ==
    IF k > Len(lineas) \/ e.error
    THEN e
    ELSE CargarLineas(lineas, k + 1, CargarLinea(lineas[k], e))

AvisoCarga == Linea("Error cargando archivo: {e}", <<>>)

\* _cargar_desde_archivo on the repository r: the repository it leaves and
\* the lines it prints
cargar_desde_archivo(r) ==
    IF ~r.archivo.existe
    THEN [repo |-> r, avisos |-> <<>>]
    ELSE LET e == CargarLineas(r.archivo.lineas, 1,
                               [libros |-> r.libros, prestamos |-> r.prestamos,
                                max_libro_id |-> 0, max_prestamo_id |-> 0,
                                error |-> FALSE])
             r1 == [r EXCEPT !.libros = e.libros, !.prestamos = e.prestamos]
         IN IF e.error
            THEN [repo |-> r1, avisos |-> <<AvisoCarga>>]
            ELSE [repo |->
                     [r1 EXCEPT
                        !.contador_libro =
                           IF e.max_libro_id > 0 THEN e.max_libro_id + 1 ELSE 1,
                        !.contador_prestamo =
                           IF e.max_prestamo_id > 0 THEN e.max_prestamo_id + 1 ELSE 1],
                  avisos |-> <<>>]

\* RepositorioArchivo(archivo) over the file a
RepositorioArchivo(a) ==
    cargar_desde_archivo([clase |-> ClaseArchivo, libros |-> <<>>, prestamos |-> <<>>,
                          contador_libro |-> 1, contador_prestamo |-> 1,
                          archivo |-> a])

MaxLineas == 3

T_Barra == <<"1", "9", "|", "8", "4">>
NoEntero == <<"x">>

\* lines a store may hold before the repository is constructed
LineaLibroBuena == LineaLibro(Libro(1, T_1984, A_Orwell, I_1984, TRUE))
LineaLibroIdMalo ==
    TagLibro \o Barra \o NoEntero \o Barra \o T_1984 \o Barra \o A_Orwell
    \o Barra \o I_1984 \o Barra \o BoolToStr(TRUE)
LineaLibroCorta ==
    TagLibro \o Barra \o IntToStr(2) \o Barra \o T_1984 \o Barra \o A_Orwell
    \o Barra \o BoolToStr(TRUE)
LineaPrestamoBuena ==
    LineaPrestamo([Prestamo(2, 1, U_Juan, F_Hoy) EXCEPT !.devuelto = TRUE])
LineaPrestamoIdMalo ==
    TagPrestamo \o Barra \o NoEntero \o Barra \o IntToStr(1) \o Barra \o U_Juan
    \o Barra \o F_Hoy \o Barra \o BoolToStr(FALSE)
LineaEncabezado == TxtLibros \o IntToStr(1)

LineasEjemplo ==
    {LineaLibroBuena, LineaLibroIdMalo, LineaLibroCorta, LineaPrestamoBuena,
     LineaPrestamoIdMalo, LineaEncabezado}

\* the stores a repository may be constructed from: no file, or a file of
\* at most MaxLineas lines
Almacenes ==
    {SinArchivo} \cup
    {[existe |-> TRUE, lineas |-> ls] :
        ls \in UNION {[1..n -> LineasEjemplo] : n \in 0..MaxLineas}}

LibrosArchivo ==
    {Libro(None, T_1984, A_Orwell, I_1984, TRUE),
     Libro(None, T_Barra, A_Orwell, I_1984, TRUE)}

PrestamosArchivo == {Prestamo(None, 1, U_Juan, F_Hoy)}

\* the state after RepositorioArchivo(archivo) over the file a
Construido(a) ==
    LET c == RepositorioArchivo(a)
    IN /\ libros = c.repo.libros
       /\ prestamos = c.repo.prestamos
       /\ contador_libro = c.repo.contador_libro
       /\ contador_prestamo = c.repo.contador_prestamo
       /\ archivo = c.repo.archivo
       /\ notificaciones = c.avisos

InitArchivo ==
    /\ variante = VarianteArchivo
    /\ \E a \in Almacenes : Construido(a)
    /\ ultima = [op |-> "__init__", args |-> <<>>]
    /\ resultado = SinResultado
    /\ asignados_libro = <<>>
    /\ asignados_prestamo = <<>>
    /\ estrategias = <<>>
    /\ previo = [libros |-> <<>>, prestamos |-> <<>>]
    /\ fase = Libre
    /\ gemelo = SinGemelo

\* a new RepositorioArchivo over the file the running one has written
Reabrir ==
    /\ Llamada("__init__", <<>>)
    /\ LET c == RepositorioArchivo(archivo)
       IN /\ Queda(c.repo)
          /\ notificaciones' = c.avisos
    /\ resultado' = SinResultado
    /\ asignados_libro' = <<>>
    /\ asignados_prestamo' = <<>>
    /\ UNCHANGED <<variante, estrategias, gemelo>>

\* the store is kept to MaxLineas record lines
CabeOtraLinea == Len(libros) + Len(prestamos) < MaxLineas

NextArchivo ==
    \/ \E l \in LibrosArchivo : CabeOtraLinea /\ LlamarRepo_agregar_libro(l)
    \/ \E i \in 1..Len(libros) :
          LlamarRepo_actualizar_libro([libros[i] EXCEPT !.disponible = ~@])
    \/ \E p \in PrestamosArchivo : CabeOtraLinea /\ LlamarRepo_agregar_prestamo(p)
    \/ \E j \in 1..Len(prestamos) :
          LlamarRepo_actualizar_prestamo([prestamos[j] EXCEPT !.devuelto = TRUE])
    \/ Reabrir

SpecArchivo == InitArchivo /\ [][NextArchivo]_vars

----------------------------------------------------------------------------
(* The services over a repository that other code also writes: loans are    *)
(* stored through the repository directly, for any book id, so a loan may   *)
(* name a book that is not stored.                                          *)

PrestamosSueltos == {Prestamo(None, id, U_Juan, F_Hoy) : id \in IdsLibro}

NextSuelto ==
    \/ agregar_libro_SRP(T_1984, A_Orwell, I_1984)
    \/ \E id \in IdsLibro : realizar_prestamo_SRP(id, U_Juan, F_Hoy)
    \/ \E id \in IdsPrestamo : devolver_libro_SRP(id)
    \/ agregar_libro_DIP(T_1984, A_Orwell, I_1984)
    \/ \E id \in IdsLibro : realizar_prestamo_DIP(id, U_Juan, F_Hoy)
    \/ \E id \in IdsPrestamo : devolver_libro_DIP(id)
    \/ \E p \in PrestamosSueltos : LlamarRepo_agregar_prestamo(p)

SpecSuelto == Init /\ [][NextSuelto]_vars

----------------------------------------------------------------------------
(* Two SistemaBibliotecaDIP, one over RepositorioArchivo and one over       *)
(* RepositorioMemoria, that receive the same calls one after the other.     *)
(* The running system is in the state variables, the other one in gemelo.   *)

Sistema(v, ls, ps, cl, cp, a, n, u, res, al, ap, pr) ==
    [variante |-> v, libros |-> ls, prestamos |-> ps, contador_libro |-> cl,
     contador_prestamo |-> cp, archivo |-> a, notificaciones |-> n, ultima |-> u,
     resultado |-> res, asignados_libro |-> al, asignados_prestamo |-> ap,
     previo |-> pr]

SistemaNuevo(v) ==
    Sistema(v, <<>>, <<>>, 1, 1, SinArchivo, <<>>, [op |-> "__init__", args |-> <<>>],
            SinResultado, <<>>, <<>>, [libros |-> <<>>, prestamos |-> <<>>])

InitGemelos ==
    /\ variante = VarianteArchivo
    /\ libros = <<>>
    /\ prestamos = <<>>
    /\ contador_libro = 1
    /\ contador_prestamo = 1
    /\ archivo = SinArchivo
    /\ notificaciones = <<>>
    /\ ultima = [op |-> "__init__", args |-> <<>>]
    /\ resultado = SinResultado
    /\ asignados_libro = <<>>
    /\ asignados_prestamo = <<>>
    /\ estrategias = <<>>
    /\ previo = [libros |-> <<>>, prestamos |-> <<>>]
    /\ fase = TurnoPrimero
    /\ gemelo = SistemaNuevo(VarianteMemoria)

\* the system that was called steps aside and the other one becomes the
\* running one
Intercambiar ==
    /\ fase \in {HechoPrimero, HechoSegundo}
    /\ fase' = IF fase = HechoPrimero THEN TurnoSegundo ELSE TurnoPrimero
    /\ gemelo' = Sistema(variante, libros, prestamos, contador_libro,
                         contador_prestamo, archivo, notificaciones, ultima,
                         resultado, asignados_libro, asignados_prestamo, previo)
    /\ variante' = gemelo.variante
    /\ libros' = gemelo.libros
    /\ prestamos' = gemelo.prestamos
    /\ contador_libro' = gemelo.contador_libro
    /\ contador_prestamo' = gemelo.contador_prestamo
    /\ archivo' = gemelo.archivo
    /\ notificaciones' = gemelo.notificaciones
    /\ ultima' = gemelo.ultima
    /\ resultado' = gemelo.resultado
    /\ asignados_libro' = gemelo.asignados_libro
    /\ asignados_prestamo' = gemelo.asignados_prestamo
    /\ previo' = gemelo.previo
    /\ UNCHANGED estrategias

\* the second system receives the call the first one has just received
RepetirLlamada ==
    LET op == gemelo.ultima.op
        args == gemelo.ultima.args
    IN \/ op = "agregar_libro" /\ agregar_libro_DIP(args[1], args[2], args[3])
       \/ op = "buscar_libro" /\ buscar_libro_DIP(args[1], args[2])
       \/ op = "realizar_prestamo"
             /\ \E f \in Fechas : realizar_prestamo_DIP(args[1], args[2], f)
       \/ op = "devolver_libro" /\ devolver_libro_DIP(args[1])
       \/ op = "obtener_todos_libros" /\ obtener_todos_libros_DIP
       \/ op = "obtener_libros_disponibles" /\ obtener_libros_disponibles_DIP
       \/ op = "obtener_prestamos_activos" /\ obtener_prestamos_activos_DIP

\* the calls the two systems receive
AltasGemelos == {<<T_A, A_B, I_123>>, <<T_1984, A_Orwell, I_1984>>}
BusquedasGemelos == {<<"disponible", V_TRUE>>, <<"editorial", V_84>>}

NextGemelos ==
    \/ fase = TurnoPrimero /\ \E b \in AltasGemelos : agregar_libro_DIP(b[1], b[2], b[3])
    \/ fase = TurnoPrimero /\ \E b \in BusquedasGemelos : buscar_libro_DIP(b[1], b[2])
    \/ fase = TurnoPrimero /\ \E id \in IdsLibro, f \in Fechas :
                                 realizar_prestamo_DIP(id, U_Juan, f)
    \/ fase = TurnoPrimero /\ \E id \in IdsPrestamo : devolver_libro_DIP(id)
    \/ fase = TurnoPrimero /\ obtener_todos_libros_DIP
    \/ fase = TurnoPrimero /\ obtener_libros_disponibles_DIP
    \/ fase = TurnoPrimero /\ obtener_prestamos_activos_DIP
    \/ fase = TurnoSegundo /\ RepetirLlamada
    \/ Intercambiar

SpecGemelos == InitGemelos /\ [][NextGemelos]_vars

----------------------------------------------------------------------------
(* The repository driven directly from any state a construction leaves:    *)
(* a store may hold several records with one id.                            *)

InitActualizar == Init \/ InitArchivo

SpecActualizar == InitActualizar /\ [][NextRepo]_vars

----------------------------------------------------------------------------
(* SistemaBibliotecaDIP over a RepositorioArchivo whose store may refuse a  *)
(* write: open() or f.write() in _guardar_en_archivo raises OSError, which  *)
(* no caller up to the service's caller catches.                            *)

\* how far a write that raises got: the file was not opened, or it was
\* truncated and this many lines reached it (the two header lines)
SinAbrir == -1
Cortes == {SinAbrir, 2}

\* _guardar_en_archivo raising in the repository "despues", whose store was
\* that of "antes": everything assigned before the call stays
guardar_fallido_deshace(antes, despues, n) ==
    [antes EXCEPT !.archivo =
        IF n = SinAbrir
        THEN antes.archivo
        ELSE [existe |-> TRUE, lineas |-> SubSeq(despues.archivo.lineas, 1, n)]]

guardar_fallido(antes, despues, n) ==
    [despues EXCEPT !.archivo =
        IF n = SinAbrir
        THEN antes.archivo
        ELSE [existe |-> TRUE, lineas |-> SubSeq(despues.archivo.lineas, 1, n)]]

\* the repository method in which the call of the service was abandoned
EnAgregarLibro == "agregar_libro"
EnAgregarPrestamo == "agregar_prestamo"
EnActualizarLibro == "actualizar_libro"
EnActualizarPrestamo == "actualizar_prestamo"

LlamadaAbandonada(op, args, donde) ==
    /\ ultima' = [op |-> op, args |-> args]
    /\ previo' = [libros |-> libros, prestamos |-> prestamos]
    /\ fase' = donde
    /\ resultado' = Excepcion("OSError")
    /\ notificaciones' = <<>>

agregar_libro_DIP_falla(titulo, autor, isbn, n) ==
    /\ variante = VarianteArchivo
    /\ ~(titulo = <<>> \/ Len(titulo) < 2)
    /\ ~(autor = <<>> \/ Len(autor) < 3)
    /\ ~(isbn = <<>> \/ Len(isbn) < 10)
    /\ Len(libros) < MaxLibros
    /\ LlamadaAbandonada("agregar_libro", <<titulo, autor, isbn>>, EnAgregarLibro)
    /\ LET r1 == Repo_agregar_libro(repositorio, Libro(None, titulo, autor, isbn, TRUE))
       IN /\ n < Len(r1.archivo.lineas)
          /\ Queda(guardar_fallido(repositorio, r1, n))
          /\ asignados_libro' = Append(asignados_libro, r1.libros[Len(r1.libros)].id)
    /\ UNCHANGED asignados_prestamo
    /\ UNCHANGED <<variante, estrategias, gemelo>>

realizar_prestamo_DIP_falla(libro_id, usuario, fecha, donde, n) ==
    /\ variante = VarianteArchivo
    /\ ~(usuario = <<>> \/ Len(usuario) < 3)
    /\ Repo_obtener_libro_por_id(repositorio, libro_id) # 0
    /\ libros[Repo_obtener_libro_por_id(repositorio, libro_id)].disponible
    /\ Len(prestamos) < MaxPrestamos
    /\ donde \in {EnAgregarPrestamo, EnActualizarLibro}
    /\ LlamadaAbandonada("realizar_prestamo", <<libro_id, usuario>>, donde)
    /\ LET i == Repo_obtener_libro_por_id(repositorio, libro_id)
           r1 == Repo_agregar_prestamo(repositorio,
                                       Prestamo(None, libro_id, usuario, fecha))
           r2 == [r1 EXCEPT !.libros[i].disponible = FALSE]
           r3 == Repo_actualizar_libro(r2, r2.libros[i])
       IN /\ IF donde = EnAgregarPrestamo
             THEN /\ n < Len(r1.archivo.lineas)
                  /\ Queda(guardar_fallido(repositorio, r1, n))
             ELSE /\ n < Len(r3.archivo.lineas)
                  /\ Queda(guardar_fallido(r1, r3, n))
          /\ asignados_prestamo' =
                Append(asignados_prestamo, r1.prestamos[Len(r1.prestamos)].id)
    /\ UNCHANGED asignados_libro
    /\ UNCHANGED <<variante, estrategias, gemelo>>

devolver_libro_DIP_falla(prestamo_id, donde, n) ==
    /\ variante = VarianteArchivo
    /\ Repo_obtener_prestamo_por_id(repositorio, prestamo_id) # 0
    /\ ~prestamos[Repo_obtener_prestamo_por_id(repositorio, prestamo_id)].devuelto
    /\ donde \in {EnActualizarLibro, EnActualizarPrestamo}
    /\ LlamadaAbandonada("devolver_libro", <<prestamo_id>>, donde)
    /\ LET j == Repo_obtener_prestamo_por_id(repositorio, prestamo_id)
           i == Repo_obtener_libro_por_id(repositorio, prestamos[j].libro_id)
           r1 == IF i # 0
                 THEN LET m == [repositorio EXCEPT !.libros[i].disponible = TRUE]
                      IN Repo_actualizar_libro(m, m.libros[i])
                 ELSE repositorio
           r2 == [r1 EXCEPT !.prestamos[j].devuelto = TRUE]
           r3 == Repo_actualizar_prestamo(r2, r2.prestamos[j])
       IN IF donde = EnActualizarLibro
          THEN /\ i # 0
               /\ n < Len(r1.archivo.lineas)
               /\ Queda(guardar_fallido(repositorio, r1, n))
          ELSE /\ n < Len(r3.archivo.lineas)
               /\ Queda(guardar_fallido(r1, r3, n))
    /\ UNCHANGED <<asignados_libro, asignados_prestamo>>
    /\ UNCHANGED <<variante, estrategias, gemelo>>

InitFallo == Init /\ variante = VarianteArchivo

LugaresDeFallo ==
    {EnAgregarLibro, EnAgregarPrestamo, EnActualizarLibro, EnActualizarPrestamo}

NextFallo ==
    \/ agregar_libro_DIP(T_1984, A_Orwell, I_1984)
    \/ \E id \in IdsLibro : realizar_prestamo_DIP(id, U_Juan, F_Hoy)
    \/ \E id \in IdsPrestamo : devolver_libro_DIP(id)
    \/ \E n \in Cortes : agregar_libro_DIP_falla(T_1984, A_Orwell, I_1984, n)
    \/ \E id \in IdsLibro, donde \in LugaresDeFallo, n \in Cortes :
          realizar_prestamo_DIP_falla(id, U_Juan, F_Hoy, donde, n)
    \/ \E id \in IdsPrestamo, donde \in LugaresDeFallo, n \in Cortes :
          devolver_libro_DIP_falla(id, donde, n)

SpecFallo == InitFallo /\ [][NextFallo]_vars

----------------------------------------------------------------------------
(* SistemaBibliotecaDIP over RepositorioArchivo, one write of the store at  *)
(* a time: realizar_prestamo and devolver_libro write twice, and the store  *)
(* between the two writes can be read from outside the program.             *)

\* the call is between its two writes
TrasAgregarPrestamo == "realizar_prestamo: agregar_prestamo hecho"
TrasActualizarLibro == "devolver_libro: actualizar_libro hecho"

\* realizar_prestamo up to the return of agregar_prestamo
realizar_prestamo_DIP_hasta_agregar_prestamo(libro_id, usuario, fecha) ==
    /\ variante = VarianteArchivo
    /\ fase = Libre
    /\ ~(usuario = <<>> \/ Len(usuario) < 3)
    /\ Repo_obtener_libro_por_id(repositorio, libro_id) # 0
    /\ libros[Repo_obtener_libro_por_id(repositorio, libro_id)].disponible
    /\ Len(prestamos) < MaxPrestamos
    /\ ultima' = [op |-> "realizar_prestamo", args |-> <<libro_id, usuario>>]
    /\ previo' = [libros |-> libros, prestamos |-> prestamos]
    /\ fase' = TrasAgregarPrestamo
    /\ LET r1 == Repo_agregar_prestamo(repositorio,
                                       Prestamo(None, libro_id, usuario, fecha))
       IN /\ Queda(r1)
          /\ asignados_prestamo' =
                Append(asignados_prestamo, r1.prestamos[Len(r1.prestamos)].id)
    /\ resultado' = SinResultado
    /\ notificaciones' = <<>>
    /\ UNCHANGED asignados_libro
    /\ UNCHANGED <<variante, estrategias, gemelo>>

\* realizar_prestamo from "libro.disponible = False" to its return
realizar_prestamo_DIP_desde_agregar_prestamo ==
    /\ fase = TrasAgregarPrestamo
    /\ fase' = Libre
    /\ LET i == Repo_obtener_libro_por_id(repositorio, ultima.args[1])
           usuario == ultima.args[2]
           prestamo_guardado == prestamos[Len(prestamos)]
           r2 == [repositorio EXCEPT !.libros[i].disponible = FALSE]
           r3 == Repo_actualizar_libro(r2, r2.libros[i])
       IN /\ Queda(r3)
          /\ notificaciones' = <<ImprimirPrestamoDIP(usuario, r2.libros[i].titulo)>>
          /\ resultado' =
                Str(<<Linea(MsgPrestamoRealizado, <<usuario, prestamo_guardado.id>>)>>)
    /\ UNCHANGED <<ultima, previo, asignados_libro, asignados_prestamo>>
    /\ UNCHANGED <<variante, estrategias, gemelo>>

\* devolver_libro up to the return of actualizar_libro
devolver_libro_DIP_hasta_actualizar_libro(prestamo_id) ==
    /\ variante = VarianteArchivo
    /\ fase = Libre
    /\ Repo_obtener_prestamo_por_id(repositorio, prestamo_id) # 0
    /\ LET j == Repo_obtener_prestamo_por_id(repositorio, prestamo_id)
           i == Repo_obtener_libro_por_id(repositorio, prestamos[j].libro_id)
           m == [repositorio EXCEPT !.libros[i].disponible = TRUE]
       IN /\ ~prestamos[j].devuelto
          /\ i # 0
          /\ Queda(Repo_actualizar_libro(m, m.libros[i]))
    /\ ultima' = [op |-> "devolver_libro", args |-> <<prestamo_id>>]
    /\ previo' = [libros |-> libros, prestamos |-> prestamos]
    /\ fase' = TrasActualizarLibro
    /\ resultado' = SinResultado
    /\ notificaciones' = <<>>
    /\ UNCHANGED <<asignados_libro, asignados_prestamo>>
    /\ UNCHANGED <<variante, estrategias, gemelo>>

\* devolver_libro from "prestamo.devuelto = True" to its return
devolver_libro_DIP_desde_actualizar_libro ==
    /\ fase = TrasActualizarLibro
    /\ fase' = Libre
    /\ LET j == Repo_obtener_prestamo_por_id(repositorio, ultima.args[1])
           i == Repo_obtener_libro_por_id(repositorio, prestamos[j].libro_id)
           r2 == [repositorio EXCEPT !.prestamos[j].devuelto = TRUE]
           r3 == Repo_actualizar_prestamo(r2, r2.prestamos[j])
       IN /\ Queda(r3)
          /\ notificaciones' =
                <<ImprimirDevolucionDIP(prestamos[j].usuario, libros[i].titulo)>>
          /\ resultado' = Str(<<Linea(MsgLibroDevuelto, <<>>)>>)
    /\ UNCHANGED <<ultima, previo, asignados_libro, asignados_prestamo>>
    /\ UNCHANGED <<variante, estrategias, gemelo>>

\* the calls that return before any write of theirs, and agregar_libro with
\* its one write, are single steps
NextPasos ==
    \/ fase = Libre /\ \E b \in AltasGemelos : agregar_libro_DIP(b[1], b[2], b[3])
    \/ fase = Libre /\ \E id \in IdsLibro, u \in Usuarios :
                          realizar_prestamo_DIP(id, u, F_Hoy) /\ UNCHANGED <<libros, prestamos>>
    \/ fase = Libre /\ \E id \in IdsPrestamo :
                          devolver_libro_DIP(id) /\ UNCHANGED <<libros, prestamos>>
    \/ \E id \in IdsLibro, u \in Usuarios :
          realizar_prestamo_DIP_hasta_agregar_prestamo(id, u, F_Hoy)
    \/ realizar_prestamo_DIP_desde_agregar_prestamo
    \/ \E id \in IdsPrestamo : devolver_libro_DIP_hasta_actualizar_libro(id)
    \/ devolver_libro_DIP_desde_actualizar_libro

SpecPasos == InitFallo /\ [][NextPasos]_vars

----------------------------------------------------------------------------
(* A caller that keeps a list a listing returned and changes it: the list   *)
(* is a new list (self.libros.copy(), a list comprehension) whose elements  *)
(* are the stored objects themselves.                                       *)

OpsListadoLibros == {"obtener_todos_libros", "obtener_libros_disponibles"}
OpsListado == OpsListadoLibros \cup {"obtener_prestamos_activos"}

OpQuitar == "del lista[k]"
OpAsignarDisponible == "lista[k].disponible = d"
OpAsignarDevuelto == "lista[k].devuelto = d"
OpsCliente == {OpQuitar, OpAsignarDisponible, OpAsignarDevuelto}

\* the positions of the records of rs, in order
Indices(rs) == [i \in 1..Len(rs) |-> i]

\* the stored object each element of the list returned by the last call is
Posiciones ==
    CASE ultima.op = "obtener_todos_libros" ->
           Indices(libros)
      [] ultima.op = "obtener_libros_disponibles" ->
           SelectSeq(Indices(libros), LAMBDA i : libros[i].disponible)
      [] ultima.op = "obtener_prestamos_activos" ->
           SelectSeq(Indices(prestamos), LAMBDA j : ~prestamos[j].devuelto)

Quitar(xs, k) == SubSeq(xs, 1, k - 1) \o SubSeq(xs, k + 1, Len(xs))

\* the caller removes an element of the list it was given
Cliente_quita(k) ==
    /\ ultima.op \in OpsListado
    /\ k \in 1..Len(resultado.valor)
    /\ Llamada(OpQuitar, <<k>>)
    /\ resultado' = Lista(Quitar(resultado.valor, k))
    /\ SinCambios
    /\ UNCHANGED <<variante, estrategias, gemelo>>

\* the caller sets "disponible" on a book of the list it was given
Cliente_asigna_disponible(k, d) ==
    /\ ultima.op \in OpsListadoLibros
    /\ k \in 1..Len(resultado.valor)
    /\ Llamada(OpAsignarDisponible, <<k, d>>)
    /\ libros' = [libros EXCEPT ![Posiciones[k]].disponible = d]
    /\ resultado' = Lista([resultado.valor EXCEPT ![k].disponible = d])
    /\ notificaciones' = <<>>
    /\ UNCHANGED <<prestamos, contador_libro, contador_prestamo, archivo,
                   asignados_libro, asignados_prestamo>>
    /\ UNCHANGED <<variante, estrategias, gemelo>>

\* the caller sets "devuelto" on a loan of the list it was given
Cliente_asigna_devuelto(k, d) ==
    /\ ultima.op = "obtener_prestamos_activos"
    /\ k \in 1..Len(resultado.valor)
    /\ Llamada(OpAsignarDevuelto, <<k, d>>)
    /\ prestamos' = [prestamos EXCEPT ![Posiciones[k]].devuelto = d]
    /\ resultado' = Lista([resultado.valor EXCEPT ![k].devuelto = d])
    /\ notificaciones' = <<>>
    /\ UNCHANGED <<libros, contador_libro, contador_prestamo, archivo,
                   asignados_libro, asignados_prestamo>>
    /\ UNCHANGED <<variante, estrategias, gemelo>>

NextCliente ==
    \/ \E b \in AltasGemelos : agregar_libro_SRP(b[1], b[2], b[3])
    \/ \E id \in IdsLibro : realizar_prestamo_SRP(id, U_Juan, F_Hoy)
    \/ obtener_todos_libros_SRP
    \/ obtener_libros_disponibles_SRP
    \/ obtener_prestamos_activos_SRP
    \/ \E b \in AltasGemelos : agregar_libro_DIP(b[1], b[2], b[3])
    \/ \E id \in IdsLibro : realizar_prestamo_DIP(id, U_Juan, F_Hoy)
    \/ obtener_todos_libros_DIP
    \/ obtener_libros_disponibles_DIP
    \/ obtener_prestamos_activos_DIP
    \/ \E k \in 1..max(MaxLibros, MaxPrestamos) : Cliente_quita(k)
    \/ \E k \in 1..MaxLibros, d \in BOOLEAN : Cliente_asigna_disponible(k, d)
    \/ \E k \in 1..MaxPrestamos, d \in BOOLEAN : Cliente_asigna_devuelto(k, d)

SpecCliente == Init /\ [][NextCliente]_vars

----------------------------------------------------------------------------
(* SistemaBibliotecaRefactorizado of ejercicio01.py: a list of books and    *)
(* the registry of search strategies.  A strategy object is named by its    *)
(* class.                                                                   *)

EstTitulo == "BusquedaPorTitulo"
EstAutor == "BusquedaPorAutor"
EstISBN == "BusquedaPorISBN"
EstDisponibilidad == "BusquedaPorDisponibilidad"
EstPalabraClave == "BusquedaPorPalabraClave"

BusquedaPorPalabraClave(ls, valor) ==
    SelectSeq(ls, LAMBDA l : \/ Contiene(lower(l.titulo), lower(valor))
                             \/ Contiene(lower(l.autor), lower(valor)))

\* estrategia.buscar(libros, valor), dispatched on the class of the object
buscar(estrategia, ls, valor) ==
    CASE estrategia = EstTitulo -> BusquedaPorTitulo(ls, valor)
      [] estrategia = EstAutor -> BusquedaPorAutor(ls, valor)
      [] estrategia = EstISBN -> BusquedaPorISBN(ls, valor)
      [] estrategia = EstDisponibilidad -> BusquedaPorDisponibilidad(ls, valor)
      [] estrategia = EstPalabraClave -> BusquedaPorPalabraClave(ls, valor)

EstrategiasIniciales ==
    [c \in {"titulo", "autor", "isbn", "disponible"} |->
        CASE c = "titulo" -> EstTitulo
          [] c = "autor" -> EstAutor
          [] c = "isbn" -> EstISBN
          [] c = "disponible" -> EstDisponibilidad]

\* buscar_libro on a registry reg and a book list ls
buscar_libro_OCP(reg, ls, criterio, valor) ==
    IF criterio \notin DOMAIN reg
    THEN Excepcion("ValueError")
    ELSE Lista(buscar(reg[criterio], ls, valor))

\* registrar_estrategia with "self._estrategias_busqueda = {criterio: estrategia}"
registrar_OCP_sin_resto(reg, criterio, estrategia) ==
    [c \in {criterio} |-> estrategia]

\* self._estrategias_busqueda[criterio] = estrategia
registrar_OCP(reg, criterio, estrategia) ==
    [c \in DOMAIN reg \cup {criterio} |-> IF c = criterio THEN estrategia ELSE reg[c]]

T_Cien == <<"C", "i", "e", "n", " ", "A", "ñ", "o", "s", " ", "d", "e", " ",
            "S", "o", "l", "e", "d", "a", "d">>
A_GGM == <<"G", "a", "b", "r", "i", "e", "l", " ", "G", "a", "r", "c", "í", "a", " ",
           "M", "á", "r", "q", "u", "e", "z">>
I_Cien == <<"9", "7", "8", "0", "0", "6", "0", "8", "8", "3", "2", "8", "7">>
V_Garcia == <<"G", "a", "r", "c", "i", "a">>
V_ORWELL == <<"O", "R", "W", "E", "L", "L">>

L_Cien == Libro(1, T_Cien, A_GGM, I_Cien, TRUE)
L_1984 == Libro(3, T_1984, A_Orwell, I_1984, FALSE)
L_SinISBN == Libro(2, T_A, A_B, <<>>, TRUE)

VarianteOCP == "OCP"
LibrosOCP == {L_Cien, L_1984, L_SinISBN}
CriteriosOCP == {"titulo", "autor", "isbn", "disponible", "palabra_clave", "editorial"}
ValoresOCP == {<<>>, V_Garcia, V_ORWELL, V_84, V_Si, I_1984}
\* the registrations the caller makes: <<criterio, estrategia>>
RegistrosOCP == {<<"palabra_clave", EstPalabraClave>>, <<"titulo", EstAutor>>}

SoloOCP ==
    /\ notificaciones' = <<>>
    /\ UNCHANGED <<variante, prestamos, contador_libro, contador_prestamo, archivo,
                   asignados_libro, asignados_prestamo, gemelo>>

InitOCP ==
    /\ variante = VarianteOCP
    /\ libros = <<>>
    /\ prestamos = <<>>
    /\ contador_libro = 1
    /\ contador_prestamo = 1
    /\ archivo = SinArchivo
    /\ notificaciones = <<>>
    /\ ultima = [op |-> "__init__", args |-> <<>>]
    /\ resultado = SinResultado
    /\ asignados_libro = <<>>
    /\ asignados_prestamo = <<>>
    /\ estrategias = EstrategiasIniciales
    /\ previo = [libros |-> <<>>, prestamos |-> <<>>]
    /\ fase = Libre
    /\ gemelo = SinGemelo

agregar_libro_OCP(libro) ==
    /\ Len(libros) < MaxLibros
    /\ Llamada("agregar_libro", <<libro>>)
    /\ libros' = Append(libros, libro)
    /\ resultado' = Nada
    /\ UNCHANGED estrategias
    /\ SoloOCP

buscar_libro_OCP_llamada(criterio, valor) ==
    /\ Llamada("buscar_libro", <<criterio, valor>>)
    /\ resultado' = buscar_libro_OCP(estrategias, libros, criterio, valor)
    /\ UNCHANGED <<libros, estrategias>>
    /\ SoloOCP

registrar_estrategia_OCP(criterio, estrategia) ==
    /\ Llamada("registrar_estrategia", <<criterio, estrategia>>)
    /\ estrategias' = registrar_OCP(estrategias, criterio, estrategia)
    /\ resultado' = Nada
    /\ UNCHANGED libros
    /\ SoloOCP

NextOCP ==
    \/ \E l \in LibrosOCP : agregar_libro_OCP(l)
    \/ \E c \in CriteriosOCP, v \in ValoresOCP : buscar_libro_OCP_llamada(c, v)
    \/ \E g \in RegistrosOCP : registrar_estrategia_OCP(g[1], g[2])

SpecOCP == InitOCP /\ [][NextOCP]_vars

----------------------------------------------------------------------------
(* Vocabulary of the properties *)

Errores ==
    {ErrTitulo, ErrAutor, ErrISBN, ErrUsuario, ErrPrestamoNoEncontrado, ErrYaDevuelto,
     ErrLibroNoEncontrado, ErrNoDisponible, ErrTituloDIP, ErrAutorDIP, ErrISBNDIP,
     ErrUsuarioDIP}

\* the call returned an error result: a str all of whose lines are error messages
EsError(res) ==
    /\ res.tipo = "str"
    /\ res.valor # <<>>
    /\ \A k \in 1..Len(res.valor) : res.valor[k].texto \in Errores

\* positions of the loans of book `id` that are not returned
Activos(ps, id) == {j \in 1..Len(ps) : ps[j].libro_id = id /\ ~ps[j].devuelto}

OpsMutadoras == {"agregar_libro", "realizar_prestamo", "devolver_libro"}

----------------------------------------------------------------------------
(* Properties of the services *)

\* C1: every stored book is unavailable iff exactly one loan with its id is
\* not returned, and available iff no loan with its id is not returned.
C1_DisponibleSiiSinPrestamoActivo ==
    \A i \in 1..Len(libros) :
        /\ (~libros[i].disponible) <=> (Cardinality(Activos(prestamos, libros[i].id)) = 1)
        /\ libros[i].disponible <=> (Activos(prestamos, libros[i].id) = {})

\* a book on loan for the second time: one returned and one active loan
C1_Witness ==
    \E i \in 1..Len(libros) :
        /\ ~libros[i].disponible
        /\ \E j, k \in 1..Len(prestamos) :
              /\ prestamos[j].libro_id = libros[i].id /\ prestamos[j].devuelto
              /\ prestamos[k].libro_id = libros[i].id /\ ~prestamos[k].devuelto

\* C2: the available flag of a stored book changes only from true to false in
\* a successful checkout of that book, and only from false to true in a
\* successful return of a loan whose book_id is that book.
C2_SoloPrestamoYDevolucionCambianDisponible ==
    [][\A i \in 1..Len(libros) :
          /\ i <= Len(libros')
          /\ (libros'[i].disponible # libros[i].disponible) =>
                /\ ~EsError(resultado')
                /\ IF libros[i].disponible
                   THEN /\ ultima'.op = "realizar_prestamo"
                        /\ ultima'.args[1] = libros[i].id
                   ELSE /\ ultima'.op = "devolver_libro"
                        /\ \E j \in 1..Len(prestamos) :
                              /\ prestamos[j].id = ultima'.args[1]
                              /\ prestamos[j].libro_id = libros[i].id]_vars

\* the flag of the first book went back to true while a second book is on loan
C2_Witness ==
    /\ ultima.op = "devolver_libro"
    /\ ~EsError(resultado)
    /\ Len(libros) >= 2
    /\ libros[1].disponible
    /\ ~libros[2].disponible

\* C3: a loan whose returned flag is true keeps it true in every later state.
C3_DevueltoNoRevierte ==
    [][\A j \in 1..Len(prestamos) :
          prestamos[j].devuelto =>
             /\ j <= Len(prestamos')
             /\ prestamos'[j].id = prestamos[j].id
             /\ prestamos'[j].devuelto]_vars

\* a returned loan, with a later checkout and a later return behind it
C3_Witness ==
    /\ Len(prestamos) >= 2
    /\ prestamos[1].devuelto
    /\ prestamos[2].devuelto


\* C4: when add_book, checkout or return_loan returns an error result, the
\* books, the loans, every record's fields and both id counters are as before
\* the call, and the call emitted no notification.
C4_ErrorSinMutacion ==
    [][(ultima'.op \in OpsMutadoras /\ EsError(resultado')) =>
          /\ libros' = libros
          /\ prestamos' = prestamos
          /\ contador_libro' = contador_libro
          /\ contador_prestamo' = contador_prestamo
          /\ notificaciones' = <<>>]_vars

\* a second return of a loan was refused while its book is on loan again
C4_Witness ==
    /\ ultima.op = "devolver_libro"
    /\ resultado = Str(<<Linea(ErrYaDevuelto, <<>>)>>)
    /\ \E j \in 1..Len(prestamos) :
          /\ prestamos[j].id = ultima.args[1]
          /\ Activos(prestamos, prestamos[j].libro_id) # {}

\* the borrower rule of the specification: at least 3 characters once trimmed
UsuarioValido(usuario) == Len(strip(usuario)) >= 3

\* C5: checkout of a stored book whose flag is false, with a valid borrower,
\* returns the 'not available' error, creates no loan, leaves the loan id
\* counter unchanged and leaves the book's flag false.
C5_PrestamoDeLibroPrestadoRechazado ==
    [][\A i \in 1..Len(libros) :
          (/\ ultima'.op = "realizar_prestamo"
           /\ UsuarioValido(ultima'.args[2])
           /\ i = PrimerIndice(libros, ultima'.args[1])
           /\ ~libros[i].disponible) =>
             /\ resultado' = Str(<<Linea(ErrNoDisponible, <<>>)>>)
             /\ prestamos' = prestamos
             /\ contador_prestamo' = contador_prestamo
             /\ Len(libros') = Len(libros)
             /\ ~libros'[i].disponible]_vars

\* the refused checkout of a book that is on loan
C5_Witness ==
    /\ ultima.op = "realizar_prestamo"
    /\ resultado = Str(<<Linea(ErrNoDisponible, <<>>)>>)
    /\ UsuarioValido(ultima.args[2])
    /\ \E i \in 1..Len(libros) : libros[i].id = ultima.args[1] /\ ~libros[i].disponible


\* the field an error message of add_book is about
Campo(texto) ==
    CASE texto \in {ErrTitulo, ErrTituloDIP} -> "titulo"
      [] texto \in {ErrAutor, ErrAutorDIP} -> "autor"
      [] texto \in {ErrISBN, ErrISBNDIP} -> "isbn"
      [] OTHER -> "otro"

\* the book rule of the specification: the invalid fields, in checking order
CamposInvalidos(titulo, autor, isbn) ==
    (IF Len(strip(titulo)) < 2 THEN <<"titulo">> ELSE <<>>)
    \o (IF Len(autor) < 3 THEN <<"autor">> ELSE <<>>)
    \o (IF Len(isbn) < 10 THEN <<"isbn">> ELSE <<>>)

\* C6: an add_book that reports errors reports one message for every invalid
\* field, in the order title, author, isbn, and stores no book; add_book("A",
\* "B", "123") reports exactly three messages.  Stated of every service.
C6_TodosLosErroresJuntos ==
    [][(ultima'.op = "agregar_libro") =>
          /\ EsError(resultado') =>
                /\ [k \in 1..Len(resultado'.valor) |-> Campo(resultado'.valor[k].texto)]
                      = CamposInvalidos(ultima'.args[1], ultima'.args[2], ultima'.args[3])
                /\ libros' = libros
          /\ (ultima'.args = <<T_A, A_B, I_123>>) =>
                /\ EsError(resultado')
                /\ Len(resultado'.valor) = 3
                /\ libros' = libros]_vars

\* C7: add_book with a title whose trimmed length is below 2, and a valid author
\* and isbn, returns a title error and stores no book.  Stated of every service.
C7_TituloRecortado ==
    [][(/\ ultima'.op = "agregar_libro"
        /\ CamposInvalidos(ultima'.args[1], ultima'.args[2], ultima'.args[3]) = <<"titulo">>) =>
          /\ EsError(resultado')
          /\ \E k \in 1..Len(resultado'.valor) : Campo(resultado'.valor[k].texto) = "titulo"
          /\ libros' = libros]_vars

\* the criteria every service knows
CriteriosConocidos == {"titulo", "autor", "isbn", "disponible"}

\* C9: a search with a criterion that is not registered raises; it does not
\* return a list.  Stated of every service.
C9_CriterioDesconocidoFalla ==
    (ultima.op = "buscar_libro" /\ ultima.args[1] \notin CriteriosConocidos) =>
        resultado.tipo = "excepcion"

\* C10: the availability search of every service returns what the registry's
\* availability strategy returns for the same books and the same query.
C10_DisponibilidadComoLaEstrategia ==
    (ultima.op = "buscar_libro" /\ ultima.args[1] = "disponible") =>
        resultado = Lista(BusquedaPorDisponibilidad(libros, ultima.args[2]))


----------------------------------------------------------------------------
(* Properties of the repositories *)

\* C8: in a repository that starts empty, the k-th add_book assigns id k and
\* the k-th add_loan assigns id k under any interleaving of add_book, add_loan,
\* update_book and update_loan; add_loan does not change the book counter nor
\* add_book the loan counter, and the updates change neither.
C8_IdsEnOrdenDeLlamada ==
    /\ [](/\ \A k \in 1..Len(asignados_libro) : asignados_libro[k] = k
          /\ \A k \in 1..Len(asignados_prestamo) : asignados_prestamo[k] = k
          /\ contador_libro = Len(asignados_libro) + 1
          /\ contador_prestamo = Len(asignados_prestamo) + 1)
    /\ [][/\ (ultima'.op = "repo.agregar_libro") =>
                /\ resultado'.valor.id = Len(asignados_libro) + 1
                /\ libros'[Len(libros')].id = Len(asignados_libro) + 1
                /\ contador_prestamo' = contador_prestamo
          /\ (ultima'.op = "repo.agregar_prestamo") =>
                /\ resultado'.valor.id = Len(asignados_prestamo) + 1
                /\ prestamos'[Len(prestamos')].id = Len(asignados_prestamo) + 1
                /\ contador_libro' = contador_libro
          /\ (ultima'.op \in {"repo.actualizar_libro", "repo.actualizar_prestamo"}) =>
                /\ contador_libro' = contador_libro
                /\ contador_prestamo' = contador_prestamo]_vars

\* second add_book and second add_loan done, with updates of stored records
\* in between, then one more update
C8_Witness ==
    /\ asignados_libro = <<1, 2>>
    /\ asignados_prestamo = <<1, 2>>
    /\ ultima.op = "repo.actualizar_prestamo"
    /\ ~libros[1].disponible
    /\ prestamos[1].devuelto


----------------------------------------------------------------------------
(* Properties of checkout and return *)

PrestamoExitoso(res) ==
    /\ res.tipo = "str"
    /\ Len(res.valor) = 1
    /\ res.valor[1].texto = MsgPrestamoRealizado

DevolucionExitosa(res) == res = Str(<<Linea(MsgLibroDevuelto, <<>>)>>)

\* C15: a successful checkout sets the book's flag to false and changes no
\* other book, appends exactly one loan with the book id, the borrower,
\* returned false and the next loan id, so the active loans are one more;
\* the message carries that loan id; and exactly one notification is emitted,
\* with the borrower and the book's title.
C15_EfectosDelPrestamo ==
    [][(ultima'.op = "realizar_prestamo" /\ PrestamoExitoso(resultado')) =>
          LET libro_id == ultima'.args[1]
              usuario == ultima'.args[2]
              i == PrimerIndice(libros, libro_id)
              n == Len(prestamos)
          IN /\ i # 0
             /\ libros[i].disponible
             /\ UsuarioValido(usuario)
             /\ libros' = [libros EXCEPT ![i].disponible = FALSE]
             /\ contador_libro' = contador_libro
             /\ Len(prestamos') = n + 1
             /\ SubSeq(prestamos', 1, n) = prestamos
             /\ prestamos'[n + 1].id = contador_prestamo
             /\ prestamos'[n + 1].libro_id = libro_id
             /\ prestamos'[n + 1].usuario = usuario
             /\ prestamos'[n + 1].devuelto = FALSE
             /\ contador_prestamo' = contador_prestamo + 1
             /\ Len(Repo_obtener_prestamos_activos(repositorio'))
                   = Len(Repo_obtener_prestamos_activos(repositorio)) + 1
             /\ resultado'.valor[1].args = <<usuario, contador_prestamo>>
             /\ Len(notificaciones') = 1
             /\ notificaciones'[1].args = <<usuario, libros[i].titulo>>]_vars

\* the second loan of the run was created on the second of two books
C15_Witness ==
    /\ ultima.op = "realizar_prestamo"
    /\ PrestamoExitoso(resultado)
    /\ Len(prestamos) = 2
    /\ Len(libros) = 2
    /\ ultima.args[1] = libros[2].id

\* C16: return_loan of a loan that is not returned succeeds, the loan is then
\* returned and its book, when stored, available; return_loan of a loan that
\* is already returned gives the 'already returned' error and changes no
\* book, no loan and no counter and emits no notification.
C16_DevolucionUnaSolaVez ==
    [][(ultima'.op = "devolver_libro"
           /\ PrimerIndice(prestamos, ultima'.args[1]) # 0) =>
          LET j == PrimerIndice(prestamos, ultima'.args[1])
              i == PrimerIndice(libros, prestamos[j].libro_id)
          IN IF ~prestamos[j].devuelto
             THEN /\ DevolucionExitosa(resultado')
                  /\ Len(prestamos') = Len(prestamos)
                  /\ prestamos'[j] = [prestamos[j] EXCEPT !.devuelto = TRUE]
                  /\ i # 0 => libros'[i].disponible
             ELSE /\ resultado' = Str(<<Linea(ErrYaDevuelto, <<>>)>>)
                  /\ notificaciones' = <<>>
                  /\ UNCHANGED <<libros, prestamos, contador_libro,
                                 contador_prestamo>>]_vars

\* return_loan was refused for a loan that was already returned before the
\* call, its book being available
C16_Witness ==
    /\ ultima.op = "devolver_libro"
    /\ resultado = Str(<<Linea(ErrYaDevuelto, <<>>)>>)
    /\ \E j \in 1..Len(prestamos) :
          /\ prestamos[j].id = ultima.args[1]
          /\ previo.prestamos[j].devuelto
          /\ \E i \in 1..Len(libros) :
                libros[i].id = prestamos[j].libro_id /\ libros[i].disponible

\* the repository as it was before the last call
repositorio_previo ==
    [repositorio EXCEPT !.libros = previo.libros, !.prestamos = previo.prestamos]

\* C17: when a successful checkout is immediately followed by a successful
\* return of the loan it created, the available books are again exactly the
\* list they were before the checkout (same books, same order) and so are
\* the active loans; between the two calls the available books are the
\* earlier list without the book checked out.
C17_PrestamoYDevolucionRestauran ==
    [][(/\ ultima.op = "realizar_prestamo"
        /\ PrestamoExitoso(resultado)
        /\ ultima' = [op |-> "devolver_libro", args |-> <<resultado.valor[1].args[2]>>]
        /\ DevolucionExitosa(resultado')) =>
          /\ Repo_obtener_libros_disponibles(repositorio')
                = Repo_obtener_libros_disponibles(repositorio_previo)
          /\ Repo_obtener_prestamos_activos(repositorio')
                = Repo_obtener_prestamos_activos(repositorio_previo)
          /\ Repo_obtener_libros_disponibles(repositorio)
                = SelectSeq(Repo_obtener_libros_disponibles(repositorio_previo),
                            LAMBDA l : l.id # ultima.args[1])]_vars

\* the loan just created on the first of two available books was returned
\* by the next call, another loan being active
C17_Witness ==
    /\ ultima.op = "devolver_libro"
    /\ DevolucionExitosa(resultado)
    /\ Len(prestamos) = 2
    /\ ultima.args[1] = prestamos[2].id
    /\ ~previo.prestamos[2].devuelto
    /\ ~prestamos[1].devuelto
    /\ Len(libros) = 2
    /\ prestamos[2].libro_id = libros[1].id

\* C18: return_loan of a loan that is not returned and whose book id matches
\* no stored book succeeds: the loan becomes returned, the fixed success
\* message is returned, no book changes and nothing is notified; when the
\* book is stored exactly one return notification is emitted, for the
\* loan's borrower and the book's title.
C18_DevolucionSinLibro ==
    [][(/\ ultima'.op = "devolver_libro"
        /\ PrimerIndice(prestamos, ultima'.args[1]) # 0
        /\ ~prestamos[PrimerIndice(prestamos, ultima'.args[1])].devuelto) =>
          LET j == PrimerIndice(prestamos, ultima'.args[1])
              i == PrimerIndice(libros, prestamos[j].libro_id)
          IN /\ DevolucionExitosa(resultado')
             /\ prestamos' = [prestamos EXCEPT ![j].devuelto = TRUE]
             /\ IF i = 0
                THEN /\ libros' = libros
                     /\ notificaciones' = <<>>
                ELSE /\ Len(notificaciones') = 1
                     /\ notificaciones'[1].args
                           = <<prestamos[j].usuario, libros[i].titulo>>]_vars

\* a loan whose book is not among the stored books was returned
C18_Witness ==
    /\ ultima.op = "devolver_libro"
    /\ DevolucionExitosa(resultado)
    /\ notificaciones = <<>>
    /\ libros # <<>>
    /\ \E j \in 1..Len(prestamos) :
          /\ prestamos[j].id = ultima.args[1]
          /\ prestamos[j].devuelto
          /\ ~previo.prestamos[j].devuelto
          /\ \A i \in 1..Len(libros) : libros[i].id # prestamos[j].libro_id

----------------------------------------------------------------------------
(* Properties of the strategy registry *)

\* the book lists the registry is compared on: the stored one and each
\* single book
ListasDePrueba == {libros} \cup {<<l>> : l \in LibrosOCP}

\* C11: register(name, strategy) changes the registry only at name: every
\* other registered criterion searches as before on every book list and query,
\* and a search under name returns the registered strategy's output.
C11_RegistrarSoloCambiaSuCriterio ==
    [][(ultima'.op = "registrar_estrategia") =>
          LET name == ultima'.args[1]
              estrategia == ultima'.args[2]
          IN /\ DOMAIN estrategias' = DOMAIN estrategias \cup {name}
             /\ \A ls \in ListasDePrueba, v \in ValoresOCP :
                   /\ \A c \in DOMAIN estrategias \ {name} :
                         buscar_libro_OCP(estrategias', ls, c, v)
                            = buscar_libro_OCP(estrategias, ls, c, v)
                   /\ buscar_libro_OCP(estrategias', ls, name, v)
                         = Lista(buscar(estrategia, ls, v))]_vars

\* the title criterion was overwritten after a new criterion had been added,
\* with two books stored
C11_Witness ==
    /\ ultima = [op |-> "registrar_estrategia", args |-> <<"titulo", EstAutor>>]
    /\ "palabra_clave" \in DOMAIN estrategias
    /\ Len(libros) >= 2


Incorporadas == {EstTitulo, EstAutor, EstISBN, EstDisponibilidad}

\* the last call was a search answered by one of the four built-in strategies
BusquedaIncorporada ==
    /\ ultima.op = "buscar_libro"
    /\ ultima.args[1] \in DOMAIN estrategias
    /\ estrategias[ultima.args[1]] \in Incorporadas

\* r takes its elements from ls, each position of ls at most once, in order
EsSubsecuencia(r, ls) ==
    \E f \in [1..Len(r) -> 1..Len(ls)] :
        /\ \A i \in 1..Len(r) : r[i] = ls[f[i]]
        /\ \A i, j \in 1..Len(r) : i < j => f[i] < f[j]

\* C12: a search answered by a built-in strategy returns a subsequence of the
\* book list it was given (only its books, none more often, same order) and
\* leaves the list and every book in it as they were.
C12_ResultadoEsSubsecuencia ==
    BusquedaIncorporada =>
        /\ resultado.tipo = "lista"
        /\ EsSubsecuencia(resultado.valor, previo.libros)
        /\ libros = previo.libros

\* a search that selected one of two different stored books
C12_Witness ==
    /\ BusquedaIncorporada
    /\ Len(libros) = 2
    /\ libros[1] # libros[2]
    /\ Len(resultado.valor) = 1

\* C13: with the empty query the title and author strategies return every
\* book, the isbn strategy the books whose isbn is empty, and the availability
\* strategy the books that are not available.
C13_ConsultaVacia ==
    (BusquedaIncorporada /\ ultima.args[2] = <<>>) =>
        LET e == estrategias[ultima.args[1]]
        IN /\ e \in {EstTitulo, EstAutor} => resultado.valor = libros
           /\ e = EstISBN =>
                 resultado.valor = SelectSeq(libros, LAMBDA l : l.isbn = <<>>)
           /\ e = EstDisponibilidad =>
                 resultado.valor = SelectSeq(libros, LAMBDA l : ~l.disponible)

\* the isbn search with the empty query over a book without isbn and one
\* with isbn
C13_Witness ==
    /\ ultima = [op |-> "buscar_libro", args |-> <<"isbn", <<>>>>]
    /\ Len(libros) = 2
    /\ resultado.valor = <<L_SinISBN>>


\* C14: the author search matches the query as a case-insensitive substring
\* of the author, and over the demo's books by "Gabriel García Márquez" and
\* "George Orwell" the query "Garcia" returns exactly the first book.
C14_AutorGarcia ==
    (/\ ultima = [op |-> "buscar_libro", args |-> <<"autor", V_Garcia>>]
     /\ estrategias["autor"] = EstAutor
     /\ libros = <<L_Cien, L_1984>>)
        => resultado = Lista(<<L_Cien>>)


----------------------------------------------------------------------------
(* Properties of the file-backed repository *)

OpsRepoMutadoras ==
    {"repo.agregar_libro", "repo.actualizar_libro",
     "repo.agregar_prestamo", "repo.actualizar_prestamo"}

\* every stored record was added through this repository, starting empty
TodoAgregadoAqui ==
    /\ Len(asignados_libro) = Len(libros)
    /\ Len(asignados_prestamo) = Len(prestamos)

\* C19: after add_book, add_loan, update_book or update_loan on a repository
\* that started empty, with field values the validator accepts (a title may
\* contain '|'), a new repository constructed from the store just written
\* holds the same book and loan lists, field for field and in the same
\* order, and the same two next ids.
C19_IdaYVuelta ==
    (ultima.op \in OpsRepoMutadoras /\ TodoAgregadoAqui) =>
        LET nuevo == RepositorioArchivo(archivo).repo
        IN /\ nuevo.libros = libros
           /\ nuevo.prestamos = prestamos
           /\ nuevo.contador_libro = contador_libro
           /\ nuevo.contador_prestamo = contador_prestamo


\* the line makes the load raise: a 6-field LIBRO or PRESTAMO line with a
\* field that int() rejects
LineaQueFalla(linea) ==
    CargarLinea(linea, [libros |-> <<>>, prestamos |-> <<>>, max_libro_id |-> 0,
                        max_prestamo_id |-> 0, error |-> FALSE]).error

AlmacenMalformado(a) ==
    a.existe /\ \E k \in 1..Len(a.lineas) : LineaQueFalla(a.lineas[k])

EmpiezaVacio ==
    /\ libros = <<>>
    /\ prestamos = <<>>
    /\ contador_libro = 1
    /\ contador_prestamo = 1

\* C20: constructing the file-backed repository raises nothing; over an
\* absent store it starts empty with both counters at 1 and prints nothing;
\* over a malformed store (a line whose id is not an integer, possibly after
\* well-formed lines) it prints the warning and also starts empty with both
\* counters at 1.
C20_ConstruirNuncaFalla ==
    (ultima.op = "__init__") =>
        /\ resultado.tipo # "excepcion"
        /\ ~archivo.existe => (EmpiezaVacio /\ notificaciones = <<>>)
        /\ AlmacenMalformado(archivo) =>
              (EmpiezaVacio /\ notificaciones = <<AvisoCarga>>)


EstadoCargaVacio ==
    [libros |-> <<>>, prestamos |-> <<>>, max_libro_id |-> 0,
     max_prestamo_id |-> 0, error |-> FALSE]

\* the line has a LIBRO or PRESTAMO tag and exactly 6 fields
LineaDeRegistro(linea) ==
    LET partes == split(strip(linea), "|")
    IN partes[1] \in {TagLibro, TagPrestamo} /\ Len(partes) = 6

LineaLibroBienFormada(linea) ==
    /\ LineaDeRegistro(linea)
    /\ ~LineaQueFalla(linea)
    /\ split(strip(linea), "|")[1] = TagLibro

LineaPrestamoBienFormada(linea) ==
    /\ LineaDeRegistro(linea)
    /\ ~LineaQueFalla(linea)
    /\ split(strip(linea), "|")[1] = TagPrestamo

\* the records of the well-formed lines of a store, in the store's order
LibrosBienFormados(a) ==
    LET ls == SelectSeq(a.lineas, LineaLibroBienFormada)
    IN [i \in 1..Len(ls) |-> CargarLinea(ls[i], EstadoCargaVacio).libros[1]]

PrestamosBienFormados(a) ==
    LET ls == SelectSeq(a.lineas, LineaPrestamoBienFormada)
    IN [i \in 1..Len(ls) |-> CargarLinea(ls[i], EstadoCargaVacio).prestamos[1]]

\* max(ids) + 1, or 1 for no records
SiguienteId(rs) ==
    IF rs = <<>> THEN 1
    ELSE (CHOOSE m \in {rs[i].id : i \in 1..Len(rs)} :
             \A i \in 1..Len(rs) : rs[i].id <= m) + 1

\* C21: when a store holds a line without exactly 6 fields for its LIBRO or
\* PRESTAMO tag, or with another tag, the load skips it and goes on: the
\* repository holds the records of all the well-formed lines before and
\* after it, and each counter is max(loaded ids) + 1, or 1 for none loaded.
C21_LineasSaltadas ==
    (/\ ultima.op = "__init__"
     /\ \E k \in 1..Len(archivo.lineas) : ~LineaDeRegistro(archivo.lineas[k])) =>
        /\ libros = LibrosBienFormados(archivo)
        /\ prestamos = PrestamosBienFormados(archivo)
        /\ contador_libro = SiguienteId(libros)
        /\ contador_prestamo = SiguienteId(prestamos)


\* the record lines of a store: what follows its two header lines
RegistrosEscritos(a) == SubSeq(a.lineas, 3, Len(a.lineas))

\* C22: in the file-backed variant the store, once written, holds after every
\* service operation exactly one LIBRO line per stored book and one PRESTAMO
\* line per stored loan, in order and with the current field values; before
\* the first write nothing is stored; and an operation that returns an error
\* leaves the store as it was.
C22_AlmacenReflejaMemoria ==
    /\ [](variante = VarianteArchivo =>
             IF archivo.existe
             THEN RegistrosEscritos(archivo)
                     = [i \in 1..Len(libros) |-> LineaLibro(libros[i])]
                       \o [j \in 1..Len(prestamos) |-> LineaPrestamo(prestamos[j])]
             ELSE libros = <<>> /\ prestamos = <<>>)
    /\ [][(variante = VarianteArchivo /\ ultima'.op \in OpsMutadoras
             /\ EsError(resultado')) => archivo' = archivo]_vars

\* the file-backed service has just returned the second of two loans
C22_Witness ==
    /\ variante = VarianteArchivo
    /\ ultima.op = "devolver_libro"
    /\ DevolucionExitosa(resultado)
    /\ Len(prestamos) = 2
    /\ prestamos[1].devuelto
    /\ prestamos[2].devuelto
    /\ Len(archivo.lineas) = 4 + Len(libros)


----------------------------------------------------------------------------
(* Properties of the two repositories behind the service *)

\* C23: when the service over RepositorioArchivo and the service over
\* RepositorioMemoria, both started empty, have received the same calls, the
\* last call returned the same result in both and their books, loans and id
\* counters are equal.
C23_RepositoriosIntercambiables ==
    (fase = TurnoPrimero) =>
        /\ variante = VarianteArchivo
        /\ gemelo.variante = VarianteMemoria
        /\ ultima = gemelo.ultima
        /\ resultado = gemelo.resultado
        /\ libros = gemelo.libros
        /\ prestamos = gemelo.prestamos
        /\ contador_libro = gemelo.contador_libro
        /\ contador_prestamo = gemelo.contador_prestamo

\* both systems have returned a loan, one of them having written its file
C23_Witness ==
    /\ fase = TurnoPrimero
    /\ ultima.op = "devolver_libro"
    /\ DevolucionExitosa(resultado)
    /\ DevolucionExitosa(gemelo.resultado)
    /\ archivo.existe
    /\ ~gemelo.archivo.existe
    /\ Len(gemelo.prestamos) = 2

----------------------------------------------------------------------------
(* Properties of the lists the repository returns *)

\* C24: the lists returned by the listings are copies: no change a caller
\* makes to a returned list, to its membership or to the fields of a record
\* in it, changes what the repository returns afterwards.
C24_ListasSonCopias ==
    ultima.op \in OpsCliente =>
        /\ Repo_obtener_todos_libros(repositorio)
              = Repo_obtener_todos_libros(repositorio_previo)
        /\ Repo_obtener_libros_disponibles(repositorio)
              = Repo_obtener_libros_disponibles(repositorio_previo)
        /\ Repo_obtener_prestamos_activos(repositorio)
              = Repo_obtener_prestamos_activos(repositorio_previo)

----------------------------------------------------------------------------
(* Properties of the updates of the repository *)

\* rs2 is rs with its first record of id x.id replaced by x, or rs when no
\* record has that id
PrimeroReemplazado(rs, rs2, x) ==
    IF \A i \in 1..Len(rs) : rs[i].id # x.id
    THEN rs2 = rs
    ELSE \E i \in 1..Len(rs) :
            /\ rs[i].id = x.id
            /\ \A j \in 1..(i - 1) : rs[j].id # x.id
            /\ rs2 = [rs EXCEPT ![i] = x]

\* C25: actualizar_libro with a record whose id matches no stored book
\* leaves the books unchanged, and otherwise replaces exactly the first
\* stored book with that id; in both cases the loans and both counters are
\* unchanged.  The same holds for actualizar_prestamo and the loans.
C25_ActualizarReemplazaElPrimero ==
    [][/\ ultima'.op = "repo.actualizar_libro" =>
             /\ PrimeroReemplazado(libros, libros', ultima'.args[1])
             /\ UNCHANGED <<prestamos, contador_libro, contador_prestamo>>
       /\ ultima'.op = "repo.actualizar_prestamo" =>
             /\ PrimeroReemplazado(prestamos, prestamos', ultima'.args[1])
             /\ UNCHANGED <<libros, contador_libro, contador_prestamo>>]_vars

\* a book was updated while two stored books had its id, and the call
\* changed the list
C25_Witness ==
    /\ ultima.op = "repo.actualizar_libro"
    /\ Cardinality({i \in 1..Len(previo.libros) :
                       previo.libros[i].id = ultima.args[1].id}) >= 2
    /\ libros # previo.libros

----------------------------------------------------------------------------
(* Properties of a store that refuses a write *)

\* what a completed write of these books and loans leaves in the store
AlmacenDe(ls, ps) ==
    guardar_en_archivo([repositorio EXCEPT !.libros = ls, !.prestamos = ps]).archivo

\* the store a holds a proper part of what a completed write leaves
EsParteDe(a, completo) ==
    /\ a.existe
    /\ Len(a.lineas) < Len(completo.lineas)
    /\ a.lineas = SubSeq(completo.lineas, 1, Len(a.lineas))

\* C26: when the write to the store fails during a mutation of the
\* file-backed repository, the failure reaches the caller, the change made
\* in memory before the write is kept and the write is not tried again: the
\* store holds what it held when the failing write began, or a proper part
\* of what that write was to put there.  In particular a failure inside
\* agregar_prestamo during realizar_prestamo leaves a stored loan that is
\* not returned for a book that is still available.
C26_FalloDeEscritura ==
    [][fase' \in LugaresDeFallo =>
          LET a == ultima'.args
              i == PrimerIndice(libros, a[1])
              j == PrimerIndice(prestamos, a[1])
          IN /\ resultado' = Excepcion("OSError")
             /\ \/ EsParteDe(archivo', AlmacenDe(libros', prestamos'))
                \/ archivo' = CASE fase' = EnActualizarPrestamo ->
                                     AlmacenDe(libros', prestamos)
                                 [] fase' = EnActualizarLibro
                                       /\ ultima'.op = "realizar_prestamo" ->
                                     AlmacenDe(libros, prestamos')
                                 [] OTHER -> archivo
             /\ ultima'.op = "agregar_libro" =>
                   /\ fase' = EnAgregarLibro
                   /\ libros' = Append(libros,
                                       Libro(contador_libro, a[1], a[2], a[3], TRUE))
                   /\ contador_libro' = contador_libro + 1
                   /\ UNCHANGED <<prestamos, contador_prestamo>>
             /\ ultima'.op = "realizar_prestamo" =>
                   /\ \E f \in Fechas :
                         prestamos' = Append(prestamos,
                                             Prestamo(contador_prestamo, a[1], a[2], f))
                   /\ contador_prestamo' = contador_prestamo + 1
                   /\ contador_libro' = contador_libro
                   /\ IF fase' = EnAgregarPrestamo
                      THEN libros' = libros /\ libros'[i].disponible
                      ELSE /\ fase' = EnActualizarLibro
                           /\ libros' = [libros EXCEPT ![i].disponible = FALSE]
             /\ ultima'.op = "devolver_libro" =>
                   LET k == PrimerIndice(libros, prestamos[j].libro_id)
                   IN /\ libros' = [libros EXCEPT ![k].disponible = TRUE]
                      /\ UNCHANGED <<contador_libro, contador_prestamo>>
                      /\ IF fase' = EnActualizarLibro
                         THEN prestamos' = prestamos
                         ELSE /\ fase' = EnActualizarPrestamo
                              /\ prestamos' = [prestamos EXCEPT ![j].devuelto = TRUE]]_vars

\* realizar_prestamo was abandoned in agregar_prestamo: its loan is stored
\* and not returned, and its book is available
C26_Witness ==
    /\ fase = EnAgregarPrestamo
    /\ ultima.op = "realizar_prestamo"
    /\ resultado = Excepcion("OSError")
    /\ \E j \in 1..Len(prestamos), i \in 1..Len(libros) :
          /\ Len(previo.prestamos) < j
          /\ ~prestamos[j].devuelto
          /\ libros[i].id = prestamos[j].libro_id
          /\ libros[i].disponible

----------------------------------------------------------------------------
(* Properties of the counters after a load *)

\* C27: after RepositorioArchivo is constructed from any store, also one
\* whose load fails part-way, contador_libro is greater than every loaded
\* book id and contador_prestamo is greater than every loaded loan id.
C27_ContadoresSobreLosIds ==
    ultima.op = "__init__" =>
        /\ \A i \in 1..Len(libros) : contador_libro > libros[i].id
        /\ \A j \in 1..Len(prestamos) : contador_prestamo > prestamos[j].id

----------------------------------------------------------------------------
(* Properties of every content of the store *)

\* C28: every content the file-backed repository writes while the service
\* runs agregar_libro, realizar_prestamo and devolver_libro, the writes in
\* the middle of a call included, records a book as not available exactly
\* when it records exactly one loan of that book that is not returned.
C28_AlmacenCoherente ==
    archivo.existe =>
        LET ls == LibrosBienFormados(archivo)
            ps == PrestamosBienFormados(archivo)
        IN \A i \in 1..Len(ls) :
              ~ls[i].disponible <=> Cardinality(Activos(ps, ls[i].id)) = 1

----------------------------------------------------------------------------
(* Properties of the service run from an empty repository *)

\* C29: after any sequence of agregar_libro, realizar_prestamo and
\* devolver_libro on the service from an empty repository, the libro_id of
\* every stored loan is the id of a stored book, so devolver_libro always
\* finds the book of its loan.
C29_PrestamosConLibro ==
    \A j \in 1..Len(prestamos) :
        \E i \in 1..Len(libros) : libros[i].id = prestamos[j].libro_id

\* a loan was returned and its book was among the stored ones
C29_Witness ==
    /\ ultima.op = "devolver_libro"
    /\ DevolucionExitosa(resultado)
    /\ \E j \in 1..Len(prestamos) :
          /\ prestamos[j].id = ultima.args[1]
          /\ \E i \in 1..Len(previo.libros) :
                previo.libros[i].id = prestamos[j].libro_id

OpsLectura ==
    {"buscar_libro", "obtener_todos_libros", "obtener_libros_disponibles",
     "obtener_prestamos_activos"}

\* C30: buscar_libro with any criterion and value, obtener_todos_libros,
\* obtener_libros_disponibles and obtener_prestamos_activos leave the books,
\* the loans, their fields and both counters as they were, and with the
\* file-backed repository nothing is written to the store.
C30_LecturasSinEfecto ==
    [][ultima'.op \in OpsLectura =>
          UNCHANGED <<libros, prestamos, contador_libro, contador_prestamo,
                      archivo>>]_vars

\* a search on the file-backed repository with a book and a loan stored
C30_Witness ==
    /\ ultima.op = "buscar_libro"
    /\ variante = VarianteArchivo
    /\ archivo.existe
    /\ libros # <<>>
    /\ prestamos # <<>>

====
